---- MODULE Spec2Model ----
(***************************************************************************)
(* Model of the Weaviate MCP server: the data-access layer                 *)
(* (WeaviateConnection, src/src/weaviate.ts) and the tool runtime          *)
(* (WeaviateMcpRuntime, src/src/mcp.ts).                                   *)
(*                                                                         *)
(* JavaScript strings are modelled as tuples of one-character strings, so  *)
(* that trim(), toLowerCase(), join(' ') and the /^[A-Z]/ test are         *)
(* computed rather than assumed.  An optional value (undefined or a value) *)
(* is the empty tuple or a one-element tuple.                              *)
(***************************************************************************)
EXTENDS Integers, Sequences, FiniteSets, TLC

VARIABLES
    schema,           \* the store: its current list of class definitions
    now,              \* Date.now(), in milliseconds
    collectionCache,  \* WeaviateMcpRuntime.collectionCache (optional)
    call,             \* the tool call in flight in the runtime, with its locals
    gcn,              \* the latest getCollectionNames invocation (history)
    conn,             \* the latest WeaviateConnection entry-point invocation
    runtime           \* the transports and the HTTP listener of the runtime

vars == <<schema, now, collectionCache, call, gcn, conn, runtime>>

\* ------------------------------------------------------------------------
\* Optional values
None == <<>>
Some(x) == <<x>>
IsSome(o) == o # <<>>
Val(o) == o[1]

\* ------------------------------------------------------------------------
\* Strings
UpperCase == <<"A","B","C","D","E","F","G","H","I","J","K","L","M",
               "N","O","P","Q","R","S","T","U","V","W","X","Y","Z">>
LowerCase == <<"a","b","c","d","e","f","g","h","i","j","k","l","m",
               "n","o","p","q","r","s","t","u","v","w","x","y","z">>
WhiteSpace == {" ", "\t", "\n"}

\* /[A-Z]/ on one character
IsUpper(c) == \E i \in 1..Len(UpperCase) : UpperCase[i] = c

\* String.prototype.toLowerCase
LowerChar(c) ==
    IF IsUpper(c)
    THEN LowerCase[CHOOSE i \in 1..Len(UpperCase) : UpperCase[i] = c]
    ELSE c
toLowerCase(s) == [i \in 1..Len(s) |-> LowerChar(s[i])]

\* String.prototype.trim
RECURSIVE trimStart(_)
trimStart(s) ==
    IF s = <<>> THEN s
    ELSE IF Head(s) \in WhiteSpace THEN trimStart(Tail(s)) ELSE s
RECURSIVE trimEnd(_)
trimEnd(s) ==
    IF s = <<>> THEN s
    ELSE IF s[Len(s)] \in WhiteSpace THEN trimEnd(SubSeq(s, 1, Len(s) - 1)) ELSE s
trim(s) == trimEnd(trimStart(s))

\* /^[A-Z]/.test(dt)
StartsUpper(dt) == dt # <<>> /\ IsUpper(Head(dt))

\* Array.prototype.join(sep) on an array of strings
RECURSIVE join(_, _)
join(arr, sep) ==
    IF arr = <<>> THEN <<>>
    ELSE IF Len(arr) = 1 THEN arr[1]
    ELSE arr[1] \o sep \o join(Tail(arr), sep)

\* Array.prototype.includes / Set.prototype.has
includes(arr, x) == \E i \in 1..Len(arr) : arr[i] = x

\* Array.from(new Set(arr)): one copy of each element, in order of first occurrence
RECURSIVE uniq(_)
uniq(arr) ==
    IF arr = <<>> THEN <<>>
    ELSE LET init == uniq(SubSeq(arr, 1, Len(arr) - 1))
             last == arr[Len(arr)]
         IN  IF includes(init, last) THEN init ELSE Append(init, last)

\* Array.prototype.map
map(arr, F(_)) == [i \in 1..Len(arr) |-> F(arr[i])]

\* Array.prototype.find, as the index of the first match (0: undefined)
findIndex(arr, P(_)) ==
    IF \E i \in 1..Len(arr) : P(arr[i])
    THEN CHOOSE i \in 1..Len(arr) : P(arr[i]) /\ \A j \in 1..(i - 1) : ~P(arr[j])
    ELSE 0

\* concatenation of an array of arrays (used for nested loops that push)
RECURSIVE flat(_)
flat(arrs) == IF arrs = <<>> THEN <<>> ELSE Head(arrs) \o flat(Tail(arrs))

\* all sequences over S of length at most n
SeqUpTo(S, n) == UNION {[1..k -> S] : k \in 0..n}

\* ------------------------------------------------------------------------
\* Names used in schemas and requests
Etapa == <<"E","t","a","p","a">>
ETAPA == <<"E","T","A","P","A">>
etapa == <<"e","t","a","p","a">>
Fluxo == <<"F","l","u","x","o">>
Ficheiro == <<"F","i","c","h">>
Ghost == <<"G","h","o","s","t">>
text == <<"t","e","x","t">>
name == <<"n","a","m","e">>
belongsToFluxo == <<"b","e","l","o","n","g","s","T","o","F","l","u","x","o">>
hasFicheiros == <<"h","a","s","F","i","c","h","e","i","r","o","s">>
hasEtapas == <<"h","a","s","E","t","a","p","a","s">>
code == <<"c","o","d","e">>

Prop(n, dts) == [name |-> n, dataType |-> dts]
Class(n, v, mc, ps) ==
    [class |-> n, vectorizer |-> v, moduleConfig |-> mc, properties |-> ps]

\* property lists: scalars, one-target and two-target references, a mixed
\* data-type list, an empty data-type list and an empty-string entry
PropsEtapa ==
    << Prop(name, <<text>>),
       Prop(belongsToFluxo, <<Fluxo>>),
       Prop(hasFicheiros, <<Ficheiro, Fluxo>>) >>
PropsFluxo ==
    << Prop(name, <<text>>),
       Prop(hasEtapas, <<text, Etapa>>),
       Prop(code, <<>>) >>
PropsFicheiro == << Prop(name, << <<>> >>), Prop(hasEtapas, <<Etapa, ETAPA>>) >>

\* (vectorizer, moduleConfig) pairs: absent, empty, blank, 'none' in several
\* spellings, a real vectorizer; moduleConfig absent, {} and with one key
T2V == <<"t","2","v">>
VecConfigs ==
    { <<None, None>>,
      <<None, Some({})>>,
      <<None, Some({"generative-openai"})>>,
      <<Some(<<>>), None>>,
      <<Some(<<" ", "\t">>), Some({})>>,
      <<Some(<<"n","o","n","e">>), None>>,
      <<Some(<<" ","N","o","N","e"," ">>), Some({})>>,
      <<Some(<<"N","O","N","E">>), Some({"generative-openai"})>>,
      <<Some(T2V), None>>,
      <<Some(<<" ","t","2","v">>), Some({})>> }

\* how many missed fields a report shows for the base class / a target class
MissedBaseShown == 12
MissedRefShown == 10

\* classes with more properties than a report shows: two that the callers
\* below request and as many more as the report's cap
extraProps(n) == [i \in 1..n |-> Prop(<<"x", LowerCase[i]>>, <<text>>)]
WideSchema ==
    << Class(Etapa, Some(T2V), None,
             << Prop(name, <<text>>), Prop(belongsToFluxo, <<Fluxo>>) >>
             \o extraProps(MissedBaseShown)),
       Class(Fluxo, None, None,
             << Prop(name, <<text>>), Prop(code, <<>>) >> \o extraProps(MissedRefShown)) >>

\* a schema in which a reference property has two declared target classes
LinkedSchema ==
    << Class(Etapa, Some(T2V), None, PropsEtapa),
       Class(Ficheiro, None, None, PropsFicheiro),
       Class(Fluxo, None, None, PropsFluxo) >>

\* classes that appear in multi-class schemas
ClassPool ==
    { Class(Etapa, Some(<<"n","o","n","e">>), Some({}), PropsEtapa),
      Class(Etapa, Some(T2V), None, PropsEtapa),
      Class(ETAPA, Some(T2V), None, <<Prop(name, <<text>>)>>),
      Class(Fluxo, None, None, PropsFluxo),
      Class(Fluxo, None, Some({"generative-openai"}), <<>>),
      Class(Ficheiro, None, None, PropsFicheiro) }

\* the number of classes of a multi-class schema
MaxClasses == 2

DistinctNames(classes) ==
    \A i, j \in 1..Len(classes) : i # j => classes[i].class # classes[j].class

\* the schemas the store may hold: class names are unique (exactly; two
\* names may differ by case only)
Schemas ==
    { s \in SeqUpTo(ClassPool, MaxClasses) : DistinctNames(s) }
    \cup { << Class(Etapa, vc[1], vc[2], PropsEtapa) >> : vc \in VecConfigs }
    \cup { WideSchema, LinkedSchema }

\* ------------------------------------------------------------------------
\* Schema utilities (weaviate.ts).  schemaOpt is the value of
\* `await this.getSchema().catch(() => undefined)`.
classesOf(schemaOpt) == IF IsSome(schemaOpt) THEN Val(schemaOpt) ELSE <<>>

\* variant: every non-empty data-type entry counts as a class name
refTargets_anyEntry(p) == SelectSeq(p.dataType, LAMBDA dt : dt # <<>>)

\* (p.dataType || []).filter((dt) => /^[A-Z]/.test(dt))
refTargets(p) == SelectSeq(p.dataType, StartsUpper)

\* variant: the class is looked up ignoring letter case
propertiesOf_ignoreCase(schemaOpt, className) ==
    LET cs == classesOf(schemaOpt)
        i == findIndex(cs, LAMBDA c : toLowerCase(c.class) = toLowerCase(className))
    IN  IF i = 0 THEN <<>> ELSE cs[i].properties

\* schema?.classes?.find((c) => c.class === className)?.properties || []
propertiesOf(schemaOpt, className) ==
    LET cs == classesOf(schemaOpt)
        i == findIndex(cs, LAMBDA c : c.class = className)
    IN  IF i = 0 THEN <<>> ELSE cs[i].properties

refsForClass(schemaOpt, className) ==
    LET props == propertiesOf(schemaOpt, className)
        mapped == map(props, LAMBDA p : [prop |-> p.name, targets |-> refTargets(p)])
    IN  SelectSeq(mapped, LAMBDA x : Len(x.targets) > 0)

\* the incoming references found in one class, in property order
incomingFrom(c, targetClass) ==
    map(SelectSeq(c.properties, LAMBDA p : includes(refTargets(p), targetClass)),
        LAMBDA p : [fromClass |-> c.class, prop |-> p.name])

incomingRefsForClass(schemaOpt, targetClass) ==
    flat(map(classesOf(schemaOpt), LAMBDA c : incomingFrom(c, targetClass)))

refTargetsForProp(schemaOpt, className, propName) ==
    LET props == propertiesOf(schemaOpt, className)
        i == findIndex(props, LAMBDA p : p.name = propName)
    IN  IF i = 0 THEN <<>> ELSE refTargets(props[i])

\* variant: the vectorizer is compared without trimming
vectorizerSet_untrimmed(cls) ==
    /\ IsSome(cls.vectorizer)
    /\ Val(cls.vectorizer) # <<>>
    /\ toLowerCase(Val(cls.vectorizer)) # <<"n","o","n","e">>

\* cls.vectorizer is a string that is neither blank nor 'none'
vectorizerSet(cls) ==
    /\ IsSome(cls.vectorizer)
    /\ trim(Val(cls.vectorizer)) # <<>>
    /\ toLowerCase(trim(Val(cls.vectorizer))) # <<"n","o","n","e">>

\* cls.moduleConfig && Object.keys(cls.moduleConfig).length > 0
moduleConfigSet(cls) ==
    IsSome(cls.moduleConfig) /\ Cardinality(Val(cls.moduleConfig)) > 0

\* the class that hasVectorizer looks at: the first whose name equals
\* className ignoring case
findClassIgnoreCase(schemaOpt, className) ==
    findIndex(classesOf(schemaOpt),
              LAMBDA c : toLowerCase(c.class) = toLowerCase(className))

hasVectorizer(schemaOpt, className) ==
    LET i == findClassIgnoreCase(schemaOpt, className)
    IN  IF i = 0 THEN FALSE
        ELSE LET cls == classesOf(schemaOpt)[i]
             IN  vectorizerSet(cls) \/ moduleConfigSet(cls)

\* ------------------------------------------------------------------------
\* The store's answer to a Get query: rows keyed by the queried class name,
\* or a failure.  A row carries the base name, the two nested reference
\* blocks read by queryOrigin and the value under the followed reference
\* property read by queryWithRefs.
F1 == <<"F","1">>
E1 == <<"E","1">>
E2 == <<"E","2">>
S1 == <<"S","1">>
S2 == <<"S","2">>
Ent(n) == [name |-> n]
RowA ==
    [name |-> Some(S1),
     belongsToFluxo |-> << Ent(Some(F1)), Ent(Some(E2)) >>,
     hasFicheiros |-> << [hasEntidades |-> << Ent(Some(E1)), Ent(Some(E2)) >>],
                         [hasEntidades |-> << Ent(Some(E1)), Ent(None), Ent(Some(<<>>)) >>] >>,
     ref |-> Some(<< Ent(Some(F1)), Ent(None), Ent(Some(<<>>)) >>)]
RowB ==
    [name |-> Some(S2), belongsToFluxo |-> <<>>, hasFicheiros |-> <<>>, ref |-> None]
StoreRows == { <<>>, <<RowB, RowA>> }
\* what the store client reports when a query fails
StoreErrors == {"connect ECONNREFUSED"}
Answered(rows) == [ok |-> TRUE, rows |-> rows, cause |-> ""]
Failed(cause) == [ok |-> FALSE, rows |-> <<>>, cause |-> cause]
NoAnswer == Failed("")
StoreAnswers ==
    { Failed(e) : e \in StoreErrors } \cup { Answered(r) : r \in StoreRows }

\* result?.data?.Get?.[key] || []  for the answer to a query on className
rowsUnder(className, answer, key) ==
    IF answer.ok /\ className = key THEN answer.rows ELSE <<>>

\* ------------------------------------------------------------------------
\* The operations of the store client that the connection uses
schemaGetter == "schema.getter"
classGetter == "schema.classGetter"
graphqlGet == "graphql.get"
dataCreator == "data.creator"

\* insertOne(collection, properties): the request it sends
insertOne(collection, properties) ==
    [api |-> dataCreator, className |-> collection, properties |-> properties]

\* ------------------------------------------------------------------------
\* The hybrid query builder (client.graphql.get() ... .do())
\* variant: the builder is taken from client.data.creator()
get_creator(className, fields) ==
    [api |-> dataCreator, className |-> className, fields |-> fields,
     hybrid |-> None, limit |-> None, generate |-> FALSE]

get(className, fields) ==
    [api |-> graphqlGet, className |-> className, fields |-> fields,
     hybrid |-> None, limit |-> None, generate |-> FALSE]

\* if (useHybrid) qb = qb.withHybrid({ query })
withHybrid(qb, useHybrid, q) ==
    IF useHybrid THEN [qb EXCEPT !.hybrid = Some(q)] ELSE qb

\* variant: a zero limit is attached too
withLimit_nonNegative(qb, limit) ==
    IF limit >= 0 THEN [qb EXCEPT !.limit = Some(limit)] ELSE qb

\* if (limit > 0) qb = qb.withLimit(limit)
withLimit(qb, limit) ==
    IF limit > 0 THEN [qb EXCEPT !.limit = Some(limit)] ELSE qb

\* an entry point's outcome: the returned text (a list of lines) or the one
\* error thrown, `${prefix}: ${cause}`
\* variant: the lines are collected on the connection and kept from one
\* call to the next
Returned_keptLines(lines) ==
    [ok |-> TRUE, prefix |-> "", cause |-> "",
     lines |-> (IF conn.outcome.ok THEN conn.outcome.lines ELSE <<>>) \o lines]

Returned(lines) == [ok |-> TRUE, prefix |-> "", cause |-> "", lines |-> lines]
\* variant: the error does not carry the cause
Thrown_causeDropped(prefix, cause) ==
    [ok |-> FALSE, prefix |-> prefix, cause |-> "", lines |-> <<>>]

Thrown(prefix, cause) == [ok |-> FALSE, prefix |-> prefix, cause |-> cause, lines |-> <<>>]

\* a JSON document: its type, and for an object or an array what it holds
\* (the rows under root.key, or the items)
Document(type, root, key, rows) ==
    [kind |-> "json", type |-> type, root |-> root, key |-> key, rows |-> rows]

\* JSON.stringify(result, null, 2) of the store's answer { data: { Get: {
\* [className]: rows } } }
JsonLine(className, answer) == Document("object", "data.Get", className, answer.rows)
\* no response yet
NoResponse == [text |-> <<>>, structuredContent |-> None]
WarningLine(collection, what) ==
    [kind |-> "warning", cls |-> collection, skipped |-> what]

\* the decision taken by query(): the schema check is commented out
query_useHybrid(schemaOpt, collection) == TRUE

query(schemaOpt, collection, q, targetProps, limit, answer) ==
    LET useHybrid == query_useHybrid(schemaOpt, collection)
        qb == withLimit(withHybrid(get(collection, join(targetProps, <<" ">>)),
                                   useHybrid, q), limit)
        json == JsonLine(collection, answer)
    IN  [request |-> qb,
         useHybrid |-> useHybrid,
         warned |-> ~useHybrid,
         outcome |->
            IF ~answer.ok THEN Thrown("Query failed", answer.cause)
            ELSE IF ~useHybrid
                 THEN Returned(<<WarningLine(collection, "hybrid search skipped"), json>>)
                 ELSE Returned(<<json>>)]

generateText(schemaOpt, collection, q, targetProps, limit, answer) ==
    LET useHybrid == hasVectorizer(schemaOpt, collection)
        qb0 == [get(collection, join(targetProps, <<" ">>)) EXCEPT !.generate = TRUE]
        qb == withLimit(withHybrid(qb0, useHybrid, q), limit)
        json == JsonLine(collection, answer)
    IN  [request |-> qb,
         useHybrid |-> useHybrid,
         warned |-> ~useHybrid,
         outcome |->
            IF ~answer.ok THEN Thrown("Text generation failed", answer.cause)
            ELSE IF ~useHybrid
                 THEN Returned(<<WarningLine(collection, "hybrid generation skipped"), json>>)
                 ELSE Returned(<<json>>)]

\* ------------------------------------------------------------------------
\* Report sections shared by the two traversal modes

\* schema?.classes?.map((c) => c.class) ?? []
classNames(schemaOpt) == map(classesOf(schemaOpt), LAMBDA c : c.class)

\* declared property names of a class that are not among the requested ones
missedFields(schemaOpt, className, requested) ==
    SelectSeq(map(propertiesOf(schemaOpt, className), LAMBDA p : p.name),
              LAMBDA n : ~includes(requested, n))

\* arr.slice(0, n)
slice(arr, n) == SubSeq(arr, 1, IF Len(arr) < n THEN Len(arr) ELSE n)

\* variant: the marker is printed as soon as the cap is reached
MissedLines_markerAtCap(cls, missed, n) ==
    IF Len(missed) = 0 THEN <<>>
    ELSE << [kind |-> "missed", cls |-> cls, show |-> slice(missed, n),
             ellipsis |-> Len(missed) >= n] >>

\* `Missed fields on ${cls}: ${show.join(', ')}${more ? ', ...' : ''}`
MissedLines(cls, missed, n) ==
    IF Len(missed) = 0 THEN <<>>
    ELSE << [kind |-> "missed", cls |-> cls, show |-> slice(missed, n),
             ellipsis |-> Len(missed) > Len(slice(missed, n))] >>

\* describeOutgoing(title, refs)
describeOutgoing(titleCls, refs) ==
    IF Len(refs) = 0 THEN <<>>
    ELSE << [kind |-> "outgoingTitle", cls |-> titleCls] >>
         \o map(refs, LAMBDA r : [kind |-> "outgoing", prop |-> r.prop, targets |-> r.targets])

\* variant: only the first incoming reference is listed
describeIncoming_firstOnly(titleCls, refs, toCls) ==
    IF Len(refs) = 0 THEN <<>>
    ELSE << [kind |-> "incomingTitle", cls |-> titleCls],
            [kind |-> "incoming", fromClass |-> refs[1].fromClass,
             prop |-> refs[1].prop, cls |-> toCls] >>

\* describeIncoming(title, refs); toCls is the class name printed after '->'
describeIncoming(titleCls, refs, toCls) ==
    IF Len(refs) = 0 THEN <<>>
    ELSE << [kind |-> "incomingTitle", cls |-> titleCls] >>
         \o map(refs, LAMBDA r : [kind |-> "incoming", fromClass |-> r.fromClass,
                                  prop |-> r.prop, cls |-> toCls])

\* the literals 'none' and 'UnknownTarget', and the separators of join
none == <<"n","o","n","e">>
UnknownTarget == <<"U","n","k","n","o","w","n","T","a","r","g","e","t">>
Comma == <<",", " ">>
Bar == <<" ", "|", " ">>

\* arr.length ? arr.join(', ') : 'none'
listOrNone(arr) == IF Len(arr) > 0 THEN join(arr, Comma) ELSE none

\* if (x?.name): a non-empty string
truthyName(o) == IsSome(o.name) /\ Val(o.name) # <<>>

\* ------------------------------------------------------------------------
\* queryOrigin

\* variant: every occurrence of a name is kept
simplifyRow_everyOccurrence(r) ==
    [etapa |-> r.name,
     fluxo |-> IF Len(r.belongsToFluxo) = 0 THEN None ELSE r.belongsToFluxo[1].name,
     entidades |->
        flat(map(r.hasFicheiros,
                 LAMBDA fich : map(SelectSeq(fich.hasEntidades, truthyName),
                                   LAMBDA ent : Val(ent.name))))]

\* one row of the simplified structure
simplifyRow(r) ==
    [etapa |-> r.name,
     fluxo |-> IF Len(r.belongsToFluxo) = 0 THEN None ELSE r.belongsToFluxo[1].name,
     entidades |->
        uniq(flat(map(r.hasFicheiros,
                      LAMBDA fich : map(SelectSeq(fich.hasEntidades, truthyName),
                                        LAMBDA ent : Val(ent.name)))))]

queryOrigin(schemaOpt, collection, q, limit, targetProps, answer) ==
    LET useHybrid == hasVectorizer(schemaOpt, collection)
        qb == withLimit(withHybrid(get(collection, join(targetProps, <<" ">>)),
                                   useHybrid, q), limit)
        rows == rowsUnder(collection, answer, Etapa)
        simplified == map(rows, simplifyRow)
        classes == classNames(schemaOpt)
        missed == missedFields(schemaOpt, collection, targetProps)
        etapaOutgoing == refsForClass(schemaOpt, collection)
        etapaIncoming == incomingRefsForClass(schemaOpt, collection)
        lines ==
            << [kind |-> "header", cls |-> Etapa, query |-> q, limit |-> limit] >>
            \o (IF ~useHybrid
                THEN <<WarningLine(collection, "hybrid search was skipped")>> ELSE <<>>)
            \o (IF Len(classes) > 0
                THEN << [kind |-> "collections", names |-> classes] >> ELSE <<>>)
            \o (IF Len(simplified) = 0
                THEN << [kind |-> "nomatch", cls |-> Etapa] >>
                ELSE << [kind |-> "matched"] >>
                     \o map(simplified,
                            LAMBDA item : [kind |-> "row", base |-> item.etapa,
                                           fluxo |-> item.fluxo,
                                           fluxoText |-> IF IsSome(item.fluxo)
                                                         THEN Val(item.fluxo) ELSE none,
                                           refs |-> item.entidades,
                                           refsText |-> listOrNone(item.entidades)]))
            \o MissedLines(collection, missed, MissedBaseShown)
            \o << [kind |-> "deepen"] >>
            \o describeOutgoing(Etapa, etapaOutgoing)
            \o describeIncoming(Etapa, etapaIncoming, Etapa)
    IN  [request |-> qb,
         useHybrid |-> useHybrid,
         warned |-> ~useHybrid,
         outcome |-> IF ~answer.ok THEN Thrown("Query failed", answer.cause)
                     ELSE Returned(lines)]

\* ------------------------------------------------------------------------
\* queryWithRefs

\* JSON.stringify(o) of an object that has no name: some non-empty text
JSONstringify(o) == <<"{","}">>

\* toName(o) for an object
toName(o) == IF IsSome(o.name) THEN Val(o.name) ELSE JSONstringify(o)

\* `... on ${t} { ${refProps.join(' ')} }`
fragment(t, refProps) ==
    <<".",".","."," ","o","n"," ">> \o t \o <<" ","{"," ">>
    \o join(refProps, <<" ">>) \o <<" ","}">>

\* variant: only the first target class gets a fragment
refBlock_firstTargetOnly(targets, refProp, refProps) ==
    IF Len(targets) > 0
    THEN <<" ">> \o refProp \o <<" ","{"," ">>
         \o fragment(targets[1], refProps) \o <<" ","}">>
    ELSE <<" ">> \o refProp \o <<" ","{"," ">> \o join(refProps, <<" ">>) \o <<" ","}">>

\* the reference block appended to the base fields
refBlock(targets, refProp, refProps) ==
    IF Len(targets) > 0
    THEN <<" ">> \o refProp \o <<" ","{"," ">>
         \o join(map(targets, LAMBDA t : fragment(t, refProps)), <<" ">>)
         \o <<" ","}">>
    ELSE <<" ">> \o refProp \o <<" ","{"," ">> \o join(refProps, <<" ">>) \o <<" ","}">>

summarizeRow(r) ==
    [base |-> toName(r),
     refs |-> IF IsSome(r.ref)
              THEN SelectSeq(map(Val(r.ref), toName), LAMBDA n : n # <<>>)
              ELSE <<>>]

\* variant: the target classes get the cap of the base class
RECURSIVE targetMissedLines_capOfBase(_, _, _)
targetMissedLines_capOfBase(schemaOpt, targets, refProps) ==
    IF targets = <<>> THEN <<>>
    ELSE MissedLines(Head(targets),
                     missedFields(schemaOpt, Head(targets), refProps), MissedBaseShown)
         \o targetMissedLines_capOfBase(schemaOpt, Tail(targets), refProps)

\* the missed-fields lines of the resolved target classes
RECURSIVE targetMissedLines(_, _, _)
targetMissedLines(schemaOpt, targets, refProps) ==
    IF targets = <<>> THEN <<>>
    ELSE MissedLines(Head(targets),
                     missedFields(schemaOpt, Head(targets), refProps), MissedRefShown)
         \o targetMissedLines(schemaOpt, Tail(targets), refProps)

queryWithRefs(schemaOpt, collection, refProp, q, limit, baseProps, refProps, answer) ==
    LET targets == refTargetsForProp(schemaOpt, collection, refProp)
        fields == trim(join(baseProps, <<" ">>) \o refBlock(targets, refProp, refProps))
        useHybrid == hasVectorizer(schemaOpt, collection)
        qb == withLimit(withHybrid(get(collection, fields), useHybrid, q), limit)
        rows == rowsUnder(collection, answer, collection)
        summarized == map(rows, summarizeRow)
        classes == classNames(schemaOpt)
        outgoing == refsForClass(schemaOpt, collection)
        incoming == incomingRefsForClass(schemaOpt, collection)
        lines ==
            << [kind |-> "header", cls |-> collection, refProp |-> refProp,
                query |-> q, limit |-> limit] >>
            \o (IF ~useHybrid
                THEN <<WarningLine(collection, "hybrid search was skipped")>> ELSE <<>>)
            \o (IF Len(classes) > 0
                THEN << [kind |-> "collections", names |-> classes] >> ELSE <<>>)
            \o MissedLines(collection,
                           missedFields(schemaOpt, collection, baseProps), MissedBaseShown)
            \o (IF Len(targets) > 0 /\ IsSome(schemaOpt)
                THEN targetMissedLines(schemaOpt, targets, refProps) ELSE <<>>)
            \o (IF Len(summarized) = 0
                THEN << [kind |-> "nomatch", cls |-> collection, refProp |-> refProp] >>
                ELSE << [kind |-> "traversed", refProp |-> refProp, targets |-> targets,
                         targetLabel |-> IF Len(targets) > 0 THEN join(targets, Bar)
                                         ELSE UnknownTarget] >>
                     \o map(summarized,
                            LAMBDA item : [kind |-> "row", cls |-> collection,
                                           label |-> item.base, refProp |-> refProp,
                                           refs |-> item.refs,
                                           refsText |-> listOrNone(item.refs)]))
            \o << [kind |-> "deepen"] >>
            \o describeOutgoing(collection, outgoing)
            \o describeIncoming(collection, incoming, collection)
    IN  [request |-> qb,
         useHybrid |-> useHybrid,
         warned |-> ~useHybrid,
         outcome |-> IF ~answer.ok THEN Thrown("Query with refs failed", answer.cause)
                     ELSE Returned(lines)]

\* ------------------------------------------------------------------------
\* The transports of the runtime as its constructor leaves them: nothing is
\* created, connected or listening.  httpTransport is "unset", "open" or
\* "closed" (the object is kept once created); httpServer is the server
\* object the runtime refers to, named by the call that created it, and
\* listening holds the servers that listen, each with its port.
RuntimeNew ==
    [httpTransport |-> "unset", activeTransport |-> FALSE, httpApp |-> FALSE,
     httpServer |-> None, listening |-> {}, connected |-> FALSE,
     pc |-> "idle", port |-> 0, calls |-> 0, last |-> "", rejected |-> FALSE,
     closed |-> <<>>]

\* ------------------------------------------------------------------------
\* WeaviateConnection driven directly (as the test scripts do): one entry
\* point is invoked on the store's current schema.
Queries == {"hello"}
Collections == {Etapa, etapa, Fluxo}
FieldLists ==
    { <<name>>, <<name, belongsToFluxo>>, <<name, name, belongsToFluxo>>,
      <<belongsToFluxo, name, belongsToFluxo>> }
RefProps == {belongsToFluxo, hasFicheiros, code}
BaseFieldLists == { <<name>>, <<name, belongsToFluxo>> }
RefFieldLists == { <<name>>, <<code, name>> }
Limits == {-1, 0, 5}

NoRequest == get(<<>>, <<>>)
ConnIdle ==
    [op |-> "none", collection |-> <<>>, refProp |-> <<>>, query |-> "",
     targetProps |-> <<>>, refProps |-> <<>>, limit |-> 0,
     schemaSeen |-> None, answer |-> NoAnswer,
     request |-> NoRequest, useHybrid |-> FALSE, warned |-> FALSE,
     outcome |-> Thrown("", ""), calls |-> 0]

\* await this.getSchema().catch(() => undefined)
SchemaSeen(ok) == IF ok THEN Some(schema) ELSE None

Invoked(op, collection, refProp, q, targetProps, refProps, limit, seen, answer, r) ==
    [op |-> op, collection |-> collection, refProp |-> refProp, query |-> q,
     targetProps |-> targetProps, refProps |-> refProps, limit |-> limit,
     schemaSeen |-> seen, answer |-> answer,
     request |-> r.request, useHybrid |-> r.useHybrid, warned |-> r.warned,
     outcome |-> r.outcome, calls |-> conn.calls + 1]

ConnFrame == UNCHANGED <<schema, now, collectionCache, call, gcn, runtime>>

Query ==
    /\ conn.op = "none"
    /\ \E c \in Collections, q \in Queries, tp \in FieldLists, l \in Limits,
          ok \in BOOLEAN, a \in StoreAnswers :
          conn' = Invoked("query", c, <<>>, q, tp, <<>>, l, SchemaSeen(ok), a,
                          query(SchemaSeen(ok), c, q, tp, l, a))
    /\ ConnFrame

GenerateText ==
    /\ conn.op = "none"
    /\ \E c \in Collections, q \in Queries, tp \in FieldLists, l \in Limits,
          ok \in BOOLEAN, a \in StoreAnswers :
          conn' = Invoked("generateText", c, <<>>, q, tp, <<>>, l, SchemaSeen(ok), a,
                          generateText(SchemaSeen(ok), c, q, tp, l, a))
    /\ ConnFrame

QueryOrigin ==
    /\ conn.op = "none"
    /\ \E c \in Collections, q \in Queries, tp \in FieldLists, l \in Limits,
          ok \in BOOLEAN, a \in StoreAnswers :
          conn' = Invoked("queryOrigin", c, <<>>, q, tp, <<>>, l, SchemaSeen(ok), a,
                          queryOrigin(SchemaSeen(ok), c, q, l, tp, a))
    /\ ConnFrame

QueryWithRefs ==
    /\ conn.op = "none"
    /\ \E c \in Collections, rp \in RefProps, q \in Queries, tp \in BaseFieldLists,
          rf \in RefFieldLists, l \in Limits, ok \in BOOLEAN, a \in StoreAnswers :
          conn' = Invoked("queryWithRefs", c, rp, q, tp, rf, l, SchemaSeen(ok), a,
                          queryWithRefs(SchemaSeen(ok), c, rp, q, l, tp, rf, a))
    /\ ConnFrame

CallIdle ==
    [pc |-> "idle", tool |-> "", candidate |-> None, query |-> "",
     targetProperties |-> <<>>,
     limit |-> None, collectionName |-> None, force |-> FALSE, t0 |-> 0,
     firstList |-> None, refreshed |-> None, forced |-> 0,
     classSchema |-> None, validated |-> <<>>, schemaSeen |-> None,
     request |-> NoRequest, queries |-> 0,
     status |-> "", error |-> "", subject |-> <<>>, list |-> <<>>,
     raw |-> Thrown("", ""), response |-> NoResponse,
     ops |-> {}, rethrown |-> ""]
InitConn ==
    /\ schema \in Schemas
    /\ now = 0
    /\ collectionCache = None
    /\ call = CallIdle
    /\ gcn = <<>>
    /\ conn = ConnIdle
    /\ runtime = RuntimeNew

NextConn == Query \/ GenerateText \/ QueryOrigin \/ QueryWithRefs

SpecConn == InitConn /\ [][NextConn]_vars

\* ------------------------------------------------------------------------
\* The same traversal made again on one connection: the caller passes the
\* arguments of the call before, the schema fetch and the store answer as
\* they did before.
MaxCalls == 2

QueryOriginAgain ==
    /\ conn.op = "queryOrigin"
    /\ conn.calls < MaxCalls
    /\ conn' = Invoked("queryOrigin", conn.collection, <<>>, conn.query,
                       conn.targetProps, <<>>, conn.limit, conn.schemaSeen, conn.answer,
                       queryOrigin(conn.schemaSeen, conn.collection, conn.query,
                                   conn.limit, conn.targetProps, conn.answer))
    /\ ConnFrame

QueryWithRefsAgain ==
    /\ conn.op = "queryWithRefs"
    /\ conn.calls < MaxCalls
    /\ conn' = Invoked("queryWithRefs", conn.collection, conn.refProp, conn.query,
                       conn.targetProps, conn.refProps, conn.limit, conn.schemaSeen,
                       conn.answer,
                       queryWithRefs(conn.schemaSeen, conn.collection, conn.refProp,
                                     conn.query, conn.limit, conn.targetProps,
                                     conn.refProps, conn.answer))
    /\ ConnFrame

NextAgain == QueryOrigin \/ QueryWithRefs \/ QueryOriginAgain \/ QueryWithRefsAgain

SpecAgain == InitConn /\ [][NextAgain]_vars

\* ------------------------------------------------------------------------
\* WeaviateMcpRuntime (mcp.ts): the tool handlers, resolveCollection,
\* getCollectionNames and validateTargetProperties.  One tool call is in
\* flight at a time; it advances from one await to the next, and between two
\* awaits the clock may advance and the store's schema may change.
QUERY_TOOL_NAME == "weaviate-query"
GENERATE_TOOL_NAME == "weaviate-generate-text"
SCHEMA_TEMPLATE_NAME == "weaviate-schema"
COLLECTION_CACHE_TTL_MS == 60000

\* variant: an entry exactly one TTL old still counts as fresh
cacheFresh_inclusive(forceRefresh, cache, t) ==
    /\ ~forceRefresh
    /\ IsSome(cache)
    /\ t - Val(cache).fetchedAt <= COLLECTION_CACHE_TTL_MS

\* if (!forceRefresh && this.collectionCache && now - fetchedAt < TTL)
cacheFresh(forceRefresh, cache, t) ==
    /\ ~forceRefresh
    /\ IsSome(cache)
    /\ t - Val(cache).fetchedAt < COLLECTION_CACHE_TTL_MS

\* schema.classes.map((cls) => cls.class).filter(Boolean)
namesOf(classes) ==
    SelectSeq(map(classes, LAMBDA c : c.class), LAMBDA n : n # <<>>)

\* variant: the names fetched are added to the names of the entry in place
refreshedCache_appended(names, t0) ==
    Some([names |-> (IF IsSome(collectionCache) THEN Val(collectionCache).names
                     ELSE <<>>) \o names,
          fetchedAt |-> t0])

\* this.collectionCache = { names, fetchedAt: now }
refreshedCache(names, t0) == Some([names |-> names, fetchedAt |-> t0])

\* variant: a failed fetch drops the cache entry
unrefreshedCache_dropped(cache) == None

\* `await this.weaviate.getSchema()` throws: the assignment is not reached
unrefreshedCache(cache) == cache

\* rawValue?.trim(), kept when non-empty
normalize(candidate) ==
    IF IsSome(candidate) /\ Len(trim(Val(candidate))) > 0
    THEN Some(trim(Val(candidate)))
    ELSE None

\* one getCollectionNames invocation, as recorded in gcn
GcnRecord(force, cache, t, phase, fetched, failed, from, returned, after) ==
    [force |-> force, cacheBefore |-> cache, t0 |-> t, phase |-> phase,
     fetched |-> fetched, failed |-> failed, fetchedFrom |-> from,
     returned |-> returned, cacheAfter |-> after]
GcnHit(force, cache, t) ==
    GcnRecord(force, cache, t, "done", FALSE, FALSE, <<>>, Some(Val(cache).names), cache)
GcnStarted(force, cache, t) ==
    GcnRecord(force, cache, t, "fetching", FALSE, FALSE, <<>>, None, cache)

\* the call ends with an error; the read handler of the schema resource
\* catches it and throws `Failed to read schema for collection ${name}:
\* ${message}` in its place
Fail(c, error, subject, list) ==
    [c EXCEPT !.pc = "done", !.status = "error", !.error = error,
              !.subject = subject, !.list = list,
              !.rethrown = IF c.tool = SCHEMA_TEMPLATE_NAME
                           THEN "Failed to read schema for collection" ELSE ""]

\* variant: a name missing from the first list fails at once, unrefreshed
resolveAfterFirst_noRefresh(c, names, t) ==
    LET c1 == [c EXCEPT !.firstList = Some(names)]
    IN  IF ~IsSome(c.collectionName) /\ Len(names) = 0
        THEN Fail(c1, "No collections are available in the Weaviate schema.", <<>>, <<>>)
        ELSE LET cn == IF IsSome(c.collectionName) THEN Val(c.collectionName)
                       ELSE names[1]
                 c2 == [c1 EXCEPT !.collectionName = Some(cn)]
             IN  IF ~includes(names, cn)
                 THEN Fail(c2, "Collection was not found. Available collections",
                           cn, names)
                 ELSE [c2 EXCEPT !.pc = "classSchema"]

\* variant: the default is the last name of the list
resolveAfterFirst_lastName(c, names, t) ==
    LET c1 == [c EXCEPT !.firstList = Some(names)]
    IN  IF ~IsSome(c.collectionName) /\ Len(names) = 0
        THEN Fail(c1, "No collections are available in the Weaviate schema.", <<>>, <<>>)
        ELSE LET cn == IF IsSome(c.collectionName) THEN Val(c.collectionName)
                       ELSE names[Len(names)]
                 c2 == [c1 EXCEPT !.collectionName = Some(cn)]
             IN  IF ~includes(names, cn)
                 THEN [c2 EXCEPT !.pc = "fetchNames", !.force = TRUE, !.t0 = t,
                                 !.forced = @ + 1]
                 ELSE [c2 EXCEPT !.pc = "classSchema"]

\* resolveCollection after its first `await this.getCollectionNames()`:
\* default to the first name, then either the class-schema fetch or the
\* forced refresh is issued (at time t)
resolveAfterFirst(c, names, t) ==
    LET c1 == [c EXCEPT !.firstList = Some(names)]
    IN  IF ~IsSome(c.collectionName) /\ Len(names) = 0
        THEN Fail(c1, "No collections are available in the Weaviate schema.", <<>>, <<>>)
        ELSE LET cn == IF IsSome(c.collectionName) THEN Val(c.collectionName)
                       ELSE names[1]
                 c2 == [c1 EXCEPT !.collectionName = Some(cn)]
             IN  IF ~includes(names, cn)
                 THEN [c2 EXCEPT !.pc = "fetchNames", !.force = TRUE, !.t0 = t,
                                 !.forced = @ + 1]
                 ELSE [c2 EXCEPT !.pc = "classSchema"]

\* resolveCollection after `await this.getCollectionNames(true)`
resolveAfterRefresh(c, names) ==
    LET c1 == [c EXCEPT !.refreshed = Some(names)]
    IN  IF ~includes(names, Val(c.collectionName))
        THEN Fail(c1, "Collection was not found. Available collections",
                  Val(c.collectionName), names)
        ELSE [c1 EXCEPT !.pc = "classSchema"]

\* variant: the requested properties are deduplicated but not checked
validateTargetProperties_unchecked(collection, targetProperties, classSchema) ==
    [ok |-> TRUE, prop |-> <<>>,
     allowed |-> uniq(map(classSchema.properties, LAMBDA prop : prop.name)),
     props |-> uniq(targetProperties)]

validateTargetProperties(collection, targetProperties, classSchema) ==
    LET uniqueProps == uniq(targetProperties)
        allowedProps == uniq(map(classSchema.properties, LAMBDA prop : prop.name))
        bad == findIndex(uniqueProps, LAMBDA prop : ~includes(allowedProps, prop))
    IN  IF bad # 0
        THEN [ok |-> FALSE, prop |-> uniqueProps[bad], allowed |-> allowedProps,
              props |-> <<>>]
        ELSE [ok |-> TRUE, prop |-> <<>>, allowed |-> allowedProps,
              props |-> uniqueProps]

\* variant: the JSON that follows a warning line is parsed
safeParseJson_afterWarning(value) ==
    IF Len(value) >= 1 /\ value[Len(value)].kind = "json"
    THEN Some(value[Len(value)]) ELSE None

\* try { return JSON.parse(value) } catch { return undefined }: the text
\* parses when it is one JSON document and nothing else
safeParseJson(value) ==
    IF Len(value) = 1 /\ value[1].kind = "json" THEN Some(value[1]) ELSE None

results == <<"r","e","s","u","l","t","s">>

\* normalizeStructuredContent(value)
normalizeStructuredContent(value) ==
    IF value = None \/ Val(value).type = "null" THEN None
    ELSE IF Val(value).type = "array"
         THEN Some(Document("object", "", results, Val(value).rows))
         ELSE IF Val(value).type = "object" THEN value ELSE None

\* the response of a tool handler to the text returned by the connection
toolResponse(rawResult) ==
    LET structured == safeParseJson(rawResult)
        structuredContent == normalizeStructuredContent(structured)
    IN  [text |-> IF IsSome(structuredContent)
                  THEN << Val(structuredContent) >> ELSE rawResult,
         structuredContent |-> structuredContent]

\* limit ?? 3
effectiveLimit(limit) == IF IsSome(limit) THEN Val(limit) ELSE 3

\* the connection method a tool handler calls
runTool(tool, seen, collection, q, props, limit, answer) ==
    IF tool = QUERY_TOOL_NAME
    THEN query(seen, collection, q, props, limit, answer)
    ELSE generateText(seen, collection, q, props, limit, answer)

\* inputs of the tool calls
Candidates == { None, Some(<<" ">>), Some(<<" ">> \o Etapa \o <<" ">>), Some(Ghost) }
ToolFieldLists == { <<name, name>>, <<name, code, belongsToFluxo, code>> }
ToolLimits == { None, Some(1) }
RuntimeSchemas ==
    { <<>>,
      << Class(Etapa, Some(T2V), None, PropsEtapa) >>,
      << Class(Fluxo, None, None, PropsFluxo),
         Class(Etapa, Some(<<"n","o","n","e">>), Some({}), PropsEtapa) >> }

\* the number of clock advances in a behaviour
MaxTicks == 2
TickSteps == {1, COLLECTION_CACHE_TTL_MS - 1}
ticksSoFar == (now \div (COLLECTION_CACHE_TTL_MS - 1)) + (now % (COLLECTION_CACHE_TTL_MS - 1))

RuntimeFrame == UNCHANGED <<conn, runtime>>

\* resolveCollection(candidate) runs up to its first await
resolveCollection(c0) ==
    IF cacheFresh(FALSE, collectionCache, now)
    THEN LET c1 == resolveAfterFirst(c0, Val(collectionCache).names, now)
         IN  /\ call' = c1
             /\ gcn' = IF c1.pc = "fetchNames"
                       THEN << GcnHit(FALSE, collectionCache, now),
                               GcnStarted(TRUE, collectionCache, now) >>
                       ELSE << GcnHit(FALSE, collectionCache, now) >>
    ELSE /\ call' = [c0 EXCEPT !.pc = "fetchNames"]
         /\ gcn' = << GcnStarted(FALSE, collectionCache, now) >>

\* a tool handler is entered: resolveCollection runs up to its first await
CallTool ==
    /\ call.pc = "idle"
    /\ \E tool \in {QUERY_TOOL_NAME, GENERATE_TOOL_NAME}, cand \in Candidates,
          q \in Queries, tp \in ToolFieldLists, l \in ToolLimits :
          resolveCollection([CallIdle EXCEPT !.tool = tool, !.candidate = cand,
                                             !.query = q, !.targetProperties = tp,
                                             !.limit = l,
                                             !.collectionName = normalize(cand),
                                             !.t0 = now])
    /\ UNCHANGED <<schema, now, collectionCache>>
    /\ RuntimeFrame

\* the read handler of the schema resource is entered for a collection
ReadResource ==
    /\ call.pc = "idle"
    /\ \E cand \in Candidates :
          resolveCollection([CallIdle EXCEPT !.tool = SCHEMA_TEMPLATE_NAME,
                                             !.candidate = cand,
                                             !.collectionName = normalize(cand),
                                             !.t0 = now])
    /\ UNCHANGED <<schema, now, collectionCache>>
    /\ RuntimeFrame

\* the list callback of the schema resource is entered: it fetches the
\* schema
ListResources ==
    /\ call.pc = "idle"
    /\ call' = [CallIdle EXCEPT !.tool = SCHEMA_TEMPLATE_NAME, !.pc = "list", !.t0 = now]
    /\ UNCHANGED <<schema, now, collectionCache, gcn>>
    /\ RuntimeFrame

\* `await this.weaviate.getSchema()` returns in the list callback: one
\* resource per class, or none when the fetch failed
ListReturns ==
    /\ call.pc = "list"
    /\ \E ok \in BOOLEAN :
          call' = [call EXCEPT !.pc = "done", !.status = "ok",
                               !.ops = @ \cup {schemaGetter},
                               !.list = IF ok THEN map(schema, LAMBDA cls : cls.class)
                                        ELSE <<>>]
    /\ UNCHANGED <<schema, now, collectionCache, gcn>>
    /\ RuntimeFrame

\* `await this.weaviate.getSchema()` inside getCollectionNames returns
GetSchemaReturns ==
    /\ call.pc = "fetchNames"
    /\ \E ok \in BOOLEAN :
          LET k == Len(gcn)
              names == namesOf(schema)
              sent == [call EXCEPT !.ops = @ \cup {schemaGetter}]
          IN  IF ~ok
              THEN /\ call' = Fail(sent, "Failed to get schema", <<>>, <<>>)
                   /\ collectionCache' = unrefreshedCache(collectionCache)
                   /\ gcn' = [gcn EXCEPT ![k].phase = "done", ![k].fetched = TRUE,
                                         ![k].failed = TRUE,
                                         ![k].cacheAfter = collectionCache']
              ELSE /\ collectionCache' = refreshedCache(names, call.t0)
                   /\ call' = IF call.force THEN resolveAfterRefresh(sent, names)
                              ELSE resolveAfterFirst(sent, names, now)
                   /\ gcn' = LET g == [gcn EXCEPT ![k].phase = "done",
                                                  ![k].fetched = TRUE,
                                                  ![k].fetchedFrom = schema,
                                                  ![k].returned = Some(names),
                                                  ![k].cacheAfter = collectionCache']
                             IN  IF call'.pc = "fetchNames"
                                 THEN Append(g, GcnStarted(TRUE, collectionCache', now))
                                 ELSE g
    /\ UNCHANGED <<schema, now>>
    /\ RuntimeFrame

\* `await this.weaviate.getClassSchema(collectionName)` returns.  A tool
\* handler then validates the requested properties and enters the connection
\* method, which issues its own schema fetch; the read handler of the schema
\* resource returns the class schema as JSON text
GetClassSchemaReturns ==
    /\ call.pc = "classSchema"
    /\ \E ok \in BOOLEAN :
          LET cn == Val(call.collectionName)
              i == findIndex(schema, LAMBDA c : c.class = cn)
              sent == [call EXCEPT !.ops = @ \cup {classGetter}]
          IN  IF ~ok \/ i = 0
              THEN call' = Fail(sent, "Failed to get class schema", cn, <<>>)
              ELSE LET v == validateTargetProperties(cn, call.targetProperties, schema[i])
                       c1 == [sent EXCEPT !.classSchema = Some(schema[i])]
                   IN  IF call.tool = SCHEMA_TEMPLATE_NAME
                       THEN call' = [c1 EXCEPT !.pc = "done", !.status = "ok",
                                        !.response =
                                           [text |-> << Document("object", "", cn,
                                                                 schema[i].properties) >>,
                                            structuredContent |-> None]]
                       ELSE IF ~v.ok
                       THEN call' = Fail(c1, "Property does not exist in collection",
                                         v.prop, v.allowed)
                       ELSE call' = [c1 EXCEPT !.validated = v.props, !.pc = "schema"]
    /\ UNCHANGED <<schema, now, collectionCache, gcn>>
    /\ RuntimeFrame

\* `await this.getSchema().catch(() => undefined)` inside query/generateText
\* returns; the request is built and sent
QuerySchemaReturns ==
    /\ call.pc = "schema"
    /\ \E ok \in BOOLEAN :
          LET r == runTool(call.tool, SchemaSeen(ok), Val(call.collectionName),
                           call.query, call.validated, effectiveLimit(call.limit),
                           NoAnswer)
          IN  call' = [call EXCEPT !.schemaSeen = SchemaSeen(ok),
                                   !.request = r.request,
                                   !.ops = @ \cup {schemaGetter},
                                   !.queries = @ + 1, !.pc = "do"]
    /\ UNCHANGED <<schema, now, collectionCache, gcn>>
    /\ RuntimeFrame

\* `await queryBuilder.do()` returns; the connection method returns its text
\* or throws, and the handler builds its response from the text
DoReturns ==
    /\ call.pc = "do"
    /\ \E a \in StoreAnswers :
          LET r == runTool(call.tool, call.schemaSeen, Val(call.collectionName),
                           call.query, call.validated, effectiveLimit(call.limit), a)
              sent == [call EXCEPT !.ops = @ \cup {r.request.api}]
          IN  call' = IF r.outcome.ok
                      THEN [sent EXCEPT !.pc = "done", !.status = "ok", !.raw = r.outcome,
                                        !.response = toolResponse(r.outcome.lines)]
                      ELSE [Fail(sent, r.outcome.prefix, <<>>, <<>>) EXCEPT !.raw = r.outcome]
    /\ UNCHANGED <<schema, now, collectionCache, gcn>>
    /\ RuntimeFrame

\* the response (or the error) is delivered to the client
Return ==
    /\ call.pc = "done"
    /\ call' = CallIdle
    /\ gcn' = <<>>
    /\ UNCHANGED <<schema, now, collectionCache>>
    /\ RuntimeFrame

\* time passes
Tick ==
    /\ ticksSoFar < MaxTicks
    /\ \E d \in TickSteps : now' = now + d
    /\ UNCHANGED <<schema, collectionCache, call, gcn>>
    /\ RuntimeFrame

\* another client of the store changes its schema
StoreChange ==
    /\ \E s \in RuntimeSchemas \ {schema} : schema' = s
    /\ UNCHANGED <<now, collectionCache, call, gcn>>
    /\ RuntimeFrame

Init ==
    /\ schema \in RuntimeSchemas
    /\ now = 0
    /\ collectionCache = None
    /\ call = CallIdle
    /\ gcn = <<>>
    /\ conn = ConnIdle
    /\ runtime = RuntimeNew

Next ==
    \/ CallTool
    \/ ReadResource
    \/ ListResources
    \/ ListReturns
    \/ GetSchemaReturns
    \/ GetClassSchemaReturns
    \/ QuerySchemaReturns
    \/ DoReturns
    \/ Return
    \/ Tick
    \/ StoreChange

Spec == Init /\ [][Next]_vars

\* ------------------------------------------------------------------------
\* startHttp and shutdown, called one after the other on one runtime.  Each
\* runs from one await to the next.
MaxOperations == 3
Ports == {3000, 3001}

LifecycleFrame == UNCHANGED <<schema, now, collectionCache, call, gcn, conn>>

\* if (!this.httpTransport)
needsTransport(r) == r.httpTransport = "unset"

\* startHttp from `if (!this.httpApp)` to the await of listen(): the app is
\* created once, a server is created and this.httpServer refers to it
listenIssued(r) ==
    [r EXCEPT !.httpApp = TRUE, !.httpServer = Some(r.calls), !.pc = "listen"]

\* startHttp(host, port) is entered
StartHttp ==
    /\ runtime.pc = "idle"
    /\ runtime.calls < MaxOperations
    /\ \E port \in Ports :
          LET r == [runtime EXCEPT !.calls = @ + 1, !.port = port,
                                   !.last = "startHttp", !.rejected = FALSE]
          IN  runtime' = IF needsTransport(r)
                         THEN [r EXCEPT !.httpTransport = "open", !.pc = "connect"]
                         ELSE listenIssued(r)
    /\ LifecycleFrame

\* `await this.server.connect(this.httpTransport)` returns
ConnectReturns ==
    /\ runtime.pc = "connect"
    /\ runtime' = listenIssued([runtime EXCEPT !.connected = TRUE,
                                               !.activeTransport = TRUE])
    /\ LifecycleFrame

\* the server listens, or reports an error (the port is taken: by a server
\* of this runtime always, by another process possibly)
ListenReturns ==
    /\ runtime.pc = "listen"
    /\ \E ok \in BOOLEAN :
          /\ ok => \A l \in runtime.listening : l.port # runtime.port
          /\ runtime' =
                IF ok
                THEN [runtime EXCEPT !.pc = "idle",
                         !.listening = @ \cup {[id |-> runtime.httpServer[1],
                                                port |-> runtime.port]}]
                ELSE [runtime EXCEPT !.pc = "idle", !.rejected = TRUE]
    /\ LifecycleFrame

\* shutdown after the HTTP server part: the active transport is closed if
\* there is one, then the MCP server
afterHttpServer(r) ==
    [r EXCEPT !.pc = IF r.activeTransport THEN "closeTransport" ELSE "closeServer"]

\* shutdown() is entered
Shutdown ==
    /\ runtime.pc = "idle"
    /\ runtime.calls < MaxOperations
    /\ LET r == [runtime EXCEPT !.calls = @ + 1, !.last = "shutdown",
                                !.rejected = FALSE, !.closed = <<>>]
       IN  runtime' = IF IsSome(r.httpServer) THEN [r EXCEPT !.pc = "closeHttp"]
                      ELSE afterHttpServer(r)
    /\ LifecycleFrame

\* `this.httpServer.close(() => resolve())` calls back
HttpServerClosed ==
    /\ runtime.pc = "closeHttp"
    /\ runtime' = afterHttpServer(
                      [runtime EXCEPT
                          !.listening = {l \in @ : l.id # runtime.httpServer[1]},
                          !.httpServer = None,
                          !.closed = Append(@, "httpServer")])
    /\ LifecycleFrame

\* `await this.activeTransport.close()` returns: the HTTP transport is
\* closed, which disconnects the MCP server from it
TransportClosed ==
    /\ runtime.pc = "closeTransport"
    /\ runtime' = [runtime EXCEPT !.httpTransport = "closed", !.connected = FALSE,
                                  !.activeTransport = FALSE,
                                  !.closed = Append(@, "activeTransport"),
                                  !.pc = "closeServer"]
    /\ LifecycleFrame

\* `await this.server.close()` returns
ServerClosed ==
    /\ runtime.pc = "closeServer"
    /\ runtime' = [runtime EXCEPT !.connected = FALSE,
                                  !.closed = Append(@, "server"), !.pc = "idle"]
    /\ LifecycleFrame

NextLifecycle ==
    \/ StartHttp
    \/ ConnectReturns
    \/ ListenReturns
    \/ Shutdown
    \/ HttpServerClosed
    \/ TransportClosed
    \/ ServerClosed

SpecLifecycle == Init /\ [][NextLifecycle]_vars

\* ------------------------------------------------------------------------
\* Concurrent callers of getCollectionNames.  Handlers run on one event
\* loop: a caller runs from its entry to the await of the schema fetch in one
\* step, and from the fetch's answer to its return in another; the steps of
\* several callers interleave.  gcn lists the invocations in the order in
\* which they were entered.
MaxInvocations == 2

\* one invocation: its argument, the time read at its entry, and how far it
\* got (the names it returned, or that it threw)
Served(forceRefresh, t, names) ==
    [force |-> forceRefresh, t0 |-> t, phase |-> "done", fetched |-> FALSE,
     failed |-> FALSE, returned |-> Some(names)]
Fetching(forceRefresh, t) ==
    [force |-> forceRefresh, t0 |-> t, phase |-> "fetching", fetched |-> FALSE,
     failed |-> FALSE, returned |-> None]

\* getCollectionNames(forceRefresh) is entered: it returns the cached names
\* or issues the schema fetch
GetCollectionNames ==
    /\ Len(gcn) < MaxInvocations
    /\ \E forceRefresh \in BOOLEAN :
          gcn' = Append(gcn, IF cacheFresh(forceRefresh, collectionCache, now)
                             THEN Served(forceRefresh, now, Val(collectionCache).names)
                             ELSE Fetching(forceRefresh, now))
    /\ UNCHANGED <<schema, now, collectionCache, call>>
    /\ RuntimeFrame

\* the schema fetch of invocation k is answered: the invocation stores the
\* names with the time read at its entry and returns them, or throws
GetCollectionNamesResumes ==
    /\ \E k \in 1..Len(gcn), ok \in BOOLEAN :
          /\ gcn[k].phase = "fetching"
          /\ collectionCache' = IF ok THEN refreshedCache(namesOf(schema), gcn[k].t0)
                                ELSE unrefreshedCache(collectionCache)
          /\ gcn' = [gcn EXCEPT ![k].phase = "done", ![k].fetched = TRUE,
                                ![k].failed = ~ok,
                                ![k].returned = IF ok THEN Some(namesOf(schema))
                                                ELSE None]
    /\ UNCHANGED <<schema, now, call>>
    /\ RuntimeFrame

NextCallers == GetCollectionNames \/ GetCollectionNamesResumes \/ Tick \/ StoreChange

SpecCallers == Init /\ [][NextCallers]_vars

\* ------------------------------------------------------------------------
\* Properties of the connection entry points (checked under SpecConn)

CapitalLetters ==
    {"A","B","C","D","E","F","G","H","I","J","K","L","M",
     "N","O","P","Q","R","S","T","U","V","W","X","Y","Z"}

\* s and t are equal when letter case is ignored
SameIgnoringCase(s, t) ==
    /\ Len(s) = Len(t)
    /\ \A i \in 1..Len(s) :
          \/ s[i] = t[i]
          \/ \E k \in 1..26 : {s[i], t[i]} = {UpperCase[k], LowerCase[k]}

\* the text of s between its first and its last non-blank character
Core(s) ==
    LET ink == {i \in 1..Len(s) : s[i] \notin WhiteSpace}
    IN  IF ink = {} THEN <<>>
        ELSE SubSeq(s, CHOOSE i \in ink : \A j \in ink : i <= j,
                       CHOOSE i \in ink : \A j \in ink : j <= i)

\* a class declares a vectorizer or a module configuration, in the words of
\* the specification
DeclaresVectorization(cls) ==
    \/ /\ IsSome(cls.vectorizer)
       /\ Core(Val(cls.vectorizer)) # <<>>
       /\ ~SameIgnoringCase(Core(Val(cls.vectorizer)), <<"n","o","n","e">>)
    \/ /\ IsSome(cls.moduleConfig)
       /\ Val(cls.moduleConfig) # {}

\* eligibility of the class named exactly className
EligibleExact(schemaOpt, className) ==
    /\ IsSome(schemaOpt)
    /\ \E i \in 1..Len(Val(schemaOpt)) :
          /\ Val(schemaOpt)[i].class = className
          /\ DeclaresVectorization(Val(schemaOpt)[i])

\* eligibility of the first class whose name is className up to letter case
EligibleIgnoringCase(schemaOpt, className) ==
    /\ IsSome(schemaOpt)
    /\ \E i \in 1..Len(Val(schemaOpt)) :
          /\ SameIgnoringCase(Val(schemaOpt)[i].class, className)
          /\ \A j \in 1..(i - 1) : ~SameIgnoringCase(Val(schemaOpt)[j].class, className)
          /\ DeclaresVectorization(Val(schemaOpt)[i])

Invocation == conn.op # "none"
UsesHasVectorizer == conn.op \in {"generateText", "queryOrigin", "queryWithRefs"}
Traversal == conn.op \in {"queryOrigin", "queryWithRefs"}
IsWarning(line) == line.kind = "warning"
HasWarningLine(lines) == \E i \in 1..Len(lines) : IsWarning(lines[i])

\* C1: every entry point sends a hybrid clause exactly when the queried
\* class is hybrid-eligible (the four entry points decide alike).
C1_HybridIffEligible ==
    Invocation =>
        (IsSome(conn.request.hybrid)
            <=> EligibleIgnoringCase(conn.schemaSeen, conn.collection))

\* C2 (as stated): hasVectorizer is true exactly when the schema contains the
\* class of that name and the class declares a vectorizer (non-blank, not
\* 'none') or a non-empty module configuration.
C2_ExactClass ==
    UsesHasVectorizer =>
        (conn.useHybrid <=> EligibleExact(conn.schemaSeen, conn.collection))

\* C2 (amended): hasVectorizer is true exactly when the schema contains a
\* class whose name equals className up to letter case and the first such
\* class declares a vectorizer (non-blank, not 'none') or a non-empty
\* module configuration; false for an absent schema or no such class.
C2_FirstClassIgnoringCase ==
    UsesHasVectorizer =>
        (conn.useHybrid <=> EligibleIgnoringCase(conn.schemaSeen, conn.collection))

\* hasVectorizer answered true for a class found only up to letter case,
\* and false for a class whose vectorizer is a padded spelling of 'none'
C2_Witness ==
    /\ conn.op = "generateText"
    /\ conn.useHybrid
    /\ IsSome(conn.schemaSeen)
    /\ \A i \in 1..Len(Val(conn.schemaSeen)) :
          Val(conn.schemaSeen)[i].class # conn.collection

\* C3: when the class is not hybrid-eligible the returned text has a warning
\* line (the first line after the header in the traversal reports); when it
\* is eligible the text has none.
C3_WarningIffNotEligible ==
    (Invocation /\ conn.outcome.ok) =>
        LET lines == conn.outcome.lines
            eligible == EligibleIgnoringCase(conn.schemaSeen, conn.collection)
        IN  /\ eligible => ~HasWarningLine(lines)
            /\ ~eligible => HasWarningLine(lines)
            /\ (~eligible /\ Traversal) => (Len(lines) >= 2 /\ IsWarning(lines[2]))

\* C8: the projection sent to the store holds each requested field once, in
\* order of first occurrence.
C8_ProjectionDeduplicated ==
    conn.op \in {"query", "generateText", "queryOrigin"} =>
        conn.request.fields = join(uniq(conn.targetProps), <<" ">>)

\* C9: a limit is attached to the request exactly when limit > 0, and then
\* it is the caller's limit.
C9_LimitIffPositive ==
    Invocation =>
        /\ IsSome(conn.request.limit) <=> conn.limit > 0
        /\ conn.limit > 0 => conn.request.limit = Some(conn.limit)

\* each of the four entry points has sent a request with no limit for a
\* zero or negative limit
C9_Witness ==
    /\ conn.op = "queryWithRefs"
    /\ conn.limit <= 0
    /\ conn.request.limit = None

\* ------------------------------------------------------------------------
\* C10: the reference index

\* the positions of the data-type entries that start with a capital letter
CapitalEntries(p) ==
    {i \in 1..Len(p.dataType) :
        Len(p.dataType[i]) > 0 /\ p.dataType[i][1] \in CapitalLetters}

\* t lists the entries of dts at the positions idx, in order
ListsEntriesAt(t, dts, idx) ==
    /\ Len(t) = Cardinality(idx)
    /\ \A i \in idx : t[Cardinality({j \in idx : j <= i})] = dts[i]

\* out is the outgoing-reference list of the properties props
IsOutgoingOf(out, props) ==
    LET refIdx == {i \in 1..Len(props) : CapitalEntries(props[i]) # {}}
    IN  /\ Len(out) = Cardinality(refIdx)
        /\ \A i \in refIdx :
              LET o == out[Cardinality({j \in refIdx : j <= i})]
              IN  /\ o.prop = props[i].name
                  /\ ListsEntriesAt(o.targets, props[i].dataType, CapitalEntries(props[i]))

ClassNameUniverse == {Etapa, ETAPA, etapa, Fluxo, Ficheiro, Ghost}

\* the declared properties of the class named C (none when C is unknown)
DeclaredProperties(classes, C) ==
    IF \E i \in 1..Len(classes) : classes[i].class = C
    THEN classes[CHOOSE i \in 1..Len(classes) : classes[i].class = C].properties
    ELSE <<>>

\* the pairs (D, p) such that C is among the targets of p in refsForClass(D)
PairsTargeting(schemaOpt, C) ==
    UNION { LET refs == refsForClass(schemaOpt, D)
            IN  {<<D, refs[k].prop>> :
                    k \in {k \in 1..Len(refs) :
                              \E t \in 1..Len(refs[k].targets) : refs[k].targets[t] = C}}
            : D \in ClassNameUniverse }

IncomingPairs(incoming) ==
    {<<incoming[k].fromClass, incoming[k].prop>> : k \in 1..Len(incoming)}

\* the lines of a report of the given kind
LinesOfKind(lines, k) == SelectSeq(lines, LAMBDA l : l.kind = k)

\* C10: refsForClass(schema, C) is exactly the properties of C with a
\* capitalised data-type entry, each with exactly those entries as targets;
\* incomingRefsForClass(schema, C) is exactly the pairs (D, p) with C among
\* the targets of p in refsForClass(schema, D).  Stated for every class name
\* on the store's schema, and for the catalogue printed by a traversal.
C10_ReferenceIndex ==
    /\ ~Invocation => \A C \in ClassNameUniverse :
          /\ IsOutgoingOf(refsForClass(Some(schema), C), DeclaredProperties(schema, C))
          /\ IncomingPairs(incomingRefsForClass(Some(schema), C))
                = PairsTargeting(Some(schema), C)
          /\ Len(incomingRefsForClass(Some(schema), C))
                = Cardinality(PairsTargeting(Some(schema), C))
    /\ (Traversal /\ conn.outcome.ok) =>
          LET lines == conn.outcome.lines
              classes == classesOf(conn.schemaSeen)
              outgoing == map(LinesOfKind(lines, "outgoing"),
                              LAMBDA l : [prop |-> l.prop, targets |-> l.targets])
          IN  /\ IsOutgoingOf(outgoing, DeclaredProperties(classes, conn.collection))
              /\ IncomingPairs(LinesOfKind(lines, "incoming"))
                    = PairsTargeting(conn.schemaSeen, conn.collection)

\* a traversal printed a catalogue with a two-target reference and an
\* incoming reference; the base class also has scalar properties
C10_Witness ==
    /\ Traversal
    /\ conn.outcome.ok
    /\ \E i \in 1..Len(conn.outcome.lines) :
          /\ conn.outcome.lines[i].kind = "outgoing"
          /\ Len(conn.outcome.lines[i].targets) = 2
    /\ \E i \in 1..Len(conn.outcome.lines) : conn.outcome.lines[i].kind = "incoming"
    /\ Len(LinesOfKind(conn.outcome.lines, "outgoing"))
          < Len(DeclaredProperties(classesOf(conn.schemaSeen), conn.collection))

\* ------------------------------------------------------------------------
\* C11: the reference index on missing metadata

PropertyNameUniverse == {name, belongsToFluxo, hasFicheiros, hasEtapas, code, Ghost}

\* the schema declares a class named C
Known(classes, C) == \E i \in 1..Len(classes) : classes[i].class = C

\* some property of some class lists C among its class-like data types
NamedAsTarget(classes, C) ==
    \E i \in 1..Len(classes) : \E j \in 1..Len(classes[i].properties) :
        \E k \in CapitalEntries(classes[i].properties[j]) :
            classes[i].properties[j].dataType[k] = C

\* the class has no property P, or its property P has no class-like data type
AbsentOrScalar(props, P) ==
    \A j \in 1..Len(props) : props[j].name = P => CapitalEntries(props[j]) = {}

\* what the three functions answer without a schema, for an unknown class
\* and for an absent or scalar property; a traversal on an unknown class or
\* without a schema ends as the store's answer decides and lists no
\* outgoing link
EmptyOnMissingMetadata ==
    /\ ~Invocation => \A C \in ClassNameUniverse :
          /\ refsForClass(None, C) = <<>>
          /\ incomingRefsForClass(None, C) = <<>>
          /\ \A P \in PropertyNameUniverse :
                /\ refTargetsForProp(None, C, P) = <<>>
                /\ AbsentOrScalar(DeclaredProperties(schema, C), P) =>
                      refTargetsForProp(Some(schema), C, P) = <<>>
          /\ ~Known(schema, C) =>
                /\ refsForClass(Some(schema), C) = <<>>
                /\ \A P \in PropertyNameUniverse :
                      refTargetsForProp(Some(schema), C, P) = <<>>
    /\ Traversal => (conn.outcome.ok <=> conn.answer.ok)
    /\ (Traversal /\ conn.outcome.ok
        /\ ~Known(classesOf(conn.schemaSeen), conn.collection)) =>
          /\ LinesOfKind(conn.outcome.lines, "outgoing") = <<>>
          /\ conn.schemaSeen = None => LinesOfKind(conn.outcome.lines, "incoming") = <<>>

\* C11 (as stated): refsForClass, incomingRefsForClass and refTargetsForProp
\* never raise; each returns an empty list when the schema is unavailable and
\* when the class is unknown, and refTargetsForProp also when the property is
\* absent or has no class-like data type.
C11_EmptyForUnknownClass ==
    /\ EmptyOnMissingMetadata
    /\ Traversal => \A C \in ClassNameUniverse :
          ~Known(classesOf(conn.schemaSeen), C) =>
              incomingRefsForClass(conn.schemaSeen, C) = <<>>
    /\ (Traversal /\ conn.outcome.ok
        /\ ~Known(classesOf(conn.schemaSeen), conn.collection)) =>
          LinesOfKind(conn.outcome.lines, "incoming") = <<>>

\* C11 (amended): the three functions never raise; refsForClass and
\* refTargetsForProp return an empty list when the schema is unavailable or
\* the class is unknown (refTargetsForProp also for an absent or scalar
\* property); incomingRefsForClass returns an empty list when the schema is
\* unavailable or no property of any class names the class as a target, and
\* otherwise the referring properties, whether the class is declared or not.
C11_EmptyUnlessNamedAsTarget ==
    /\ EmptyOnMissingMetadata
    /\ ~Invocation => \A C \in ClassNameUniverse :
          incomingRefsForClass(Some(schema), C) = <<>> <=> ~NamedAsTarget(schema, C)
    /\ (Traversal /\ conn.outcome.ok /\ conn.schemaSeen # None) =>
          (LinesOfKind(conn.outcome.lines, "incoming") = <<>>
              <=> ~NamedAsTarget(Val(conn.schemaSeen), conn.collection))

\* a traversal on a class that the schema does not declare, but that another
\* class refers to: no outgoing link, some incoming links
C11_Witness ==
    /\ Traversal
    /\ conn.outcome.ok
    /\ conn.schemaSeen # None
    /\ ~Known(Val(conn.schemaSeen), conn.collection)
    /\ LinesOfKind(conn.outcome.lines, "outgoing") = <<>>
    /\ LinesOfKind(conn.outcome.lines, "incoming") # <<>>


\* ------------------------------------------------------------------------
\* C12: the missed fields of the base collection

\* the positions in names of the fields that were not requested
Unrequested(names, requested) ==
    {i \in 1..Len(names) : \A k \in 1..Len(requested) : requested[k] # names[i]}

\* the first n positions of idx
FirstOf(idx, n) == {i \in idx : Cardinality({j \in idx : j <= i}) <= n}

\* the names of the declared properties of class C, in declared order
DeclaredNamesOf(classes, C) ==
    [i \in 1..Len(DeclaredProperties(classes, C)) |->
        DeclaredProperties(classes, C)[i].name]

\* C12: in queryOrigin and queryWithRefs the missed fields reported for the
\* base collection are the declared property names that were not requested,
\* in declared order: all of them and no ellipsis marker when there are at
\* most 12, the first 12 followed by the marker when there are more (and no
\* line when there is none).
C12_MissedBaseFields ==
    (Traversal /\ conn.outcome.ok) =>
        LET names == DeclaredNamesOf(classesOf(conn.schemaSeen), conn.collection)
            idx == Unrequested(names, conn.targetProps)
            M == LinesOfKind(conn.outcome.lines, "missed")
        IN  /\ idx = {} => \A k \in 1..Len(M) : M[k].cls # conn.collection
            /\ idx # {} =>
                  /\ Len(M) >= 1
                  /\ M[1].cls = conn.collection
                  /\ ListsEntriesAt(M[1].show, names, FirstOf(idx, 12))
                  /\ M[1].ellipsis <=> Cardinality(idx) > 12
            /\ conn.op = "queryOrigin" => Len(M) <= 1

\* a report shows 12 of the 13 missed fields of its base collection,
\* followed by the marker
C12_Witness ==
    /\ conn.op = "queryWithRefs"
    /\ conn.outcome.ok
    /\ \E i \in 1..Len(conn.outcome.lines) :
          /\ conn.outcome.lines[i].kind = "missed"
          /\ conn.outcome.lines[i].cls = conn.collection
          /\ Len(conn.outcome.lines[i].show) = 12
          /\ conn.outcome.lines[i].ellipsis
          /\ Len(DeclaredNamesOf(classesOf(conn.schemaSeen), conn.collection)) = 14

\* ------------------------------------------------------------------------
\* C13: the projection of queryOrigin

hasEntidades == <<"h","a","s","E","n","t","i","d","a","d","e","s">>

\* the positions in fields where a block `prop { ...` starts: the word prop,
\* then an opening brace, with only blanks in between
BlockStarts(fields, prop) ==
    {i \in 1..Len(fields) :
        /\ i + Len(prop) - 1 <= Len(fields)
        /\ SubSeq(fields, i, i + Len(prop) - 1) = prop
        /\ \E b \in (i + Len(prop))..Len(fields) :
              /\ fields[b] = "{"
              /\ \A k \in (i + Len(prop))..(b - 1) : fields[k] \in WhiteSpace}

\* the field word appears in fields, delimited by blanks or the ends
HasField(fields, word) ==
    \E i \in 1..Len(fields) :
        /\ i + Len(word) - 1 <= Len(fields)
        /\ SubSeq(fields, i, i + Len(word) - 1) = word
        /\ i > 1 => fields[i - 1] \in WhiteSpace
        /\ i + Len(word) <= Len(fields) => fields[i + Len(word)] \in WhiteSpace

\* C13: the query that queryOrigin sends requests the base name field and
\* the two nested reference blocks: belongsToFluxo { ... } and
\* hasFicheiros { ... hasEntidades { ... } }.
C13_RequestsNestedBlocks ==
    conn.op = "queryOrigin" =>
        /\ HasField(conn.request.fields, name)
        /\ BlockStarts(conn.request.fields, belongsToFluxo) # {}
        /\ \E f \in BlockStarts(conn.request.fields, hasFicheiros) :
              \E e \in BlockStarts(conn.request.fields, hasEntidades) : f < e

\* ------------------------------------------------------------------------
\* C14: what queryOrigin reports of a row

\* the positions <<f, e>> of the entries under hasFicheiros[f].hasEntidades[e]
\* that carry a non-empty name
NamedEntidades(r) ==
    {p \in UNION { {f} \X (1..Len(r.hasFicheiros[f].hasEntidades)) :
                     f \in 1..Len(r.hasFicheiros) } :
        r.hasFicheiros[p[1]].hasEntidades[p[2]].name \notin {<<>>, << <<>> >>}}
EntidadeAt(r, p) == r.hasFicheiros[p[1]].hasEntidades[p[2]].name[1]
Before(p, q) == p[1] < q[1] \/ (p[1] = q[1] /\ p[2] < q[2])

\* the positions where a name occurs for the first time
FirstOccurrences(r) ==
    {p \in NamedEntidades(r) :
        \A q \in NamedEntidades(r) : Before(q, p) => EntidadeAt(r, q) # EntidadeAt(r, p)}

\* L lists each distinct name once, in order of first occurrence
ListsEntidades(L, r) ==
    /\ Len(L) = Cardinality(FirstOccurrences(r))
    /\ \A p \in FirstOccurrences(r) :
          L[Cardinality({q \in FirstOccurrences(r) : q = p \/ Before(q, p)})]
             = EntidadeAt(r, p)

\* C14: for each row that queryOrigin reports, the fluxo is the name of the
\* first belongsToFluxo entry, or 'none' when there is none; the entidades
\* are the distinct non-empty names under hasFicheiros[*].hasEntidades[*],
\* each once, in order of first occurrence and separated by ', ', or 'none'
\* when there are none.
C14_FluxoAndEntidades ==
    (conn.op = "queryOrigin" /\ conn.outcome.ok) =>
        LET R == LinesOfKind(conn.outcome.lines, "row")
            rows == conn.answer.rows
        IN  /\ Len(R) \in {0, Len(rows)}
            /\ \A k \in 1..Len(R) :
                  /\ R[k].base = rows[k].name
                  /\ R[k].fluxoText =
                        IF Len(rows[k].belongsToFluxo) > 0
                           /\ rows[k].belongsToFluxo[1].name # <<>>
                        THEN rows[k].belongsToFluxo[1].name[1]
                        ELSE <<"n","o","n","e">>
                  /\ ListsEntidades(R[k].refs, rows[k])
                  /\ R[k].refsText =
                        IF R[k].refs = <<>> THEN <<"n","o","n","e">>
                        ELSE join(R[k].refs, <<",", " ">>)

\* a report with one row whose fluxo is F1, the first of two, and whose
\* entidades E1, E2, E1 are listed as 'E1, E2', and one row with neither
C14_Witness ==
    /\ conn.op = "queryOrigin"
    /\ conn.outcome.ok
    /\ \E i, j \in 1..Len(conn.outcome.lines) :
          /\ conn.outcome.lines[i].kind = "row"
          /\ conn.outcome.lines[i].fluxoText = F1
          /\ conn.outcome.lines[i].refsText = E1 \o <<",", " ">> \o E2
          /\ conn.outcome.lines[j].kind = "row"
          /\ conn.outcome.lines[j].fluxoText = <<"n","o","n","e">>
          /\ conn.outcome.lines[j].refsText = <<"n","o","n","e">>

\* ------------------------------------------------------------------------
\* C15: the projection of queryWithRefs

\* the target classes of property P of class C: the class-like data types
\* of the property, in declared order; none when the schema is unavailable,
\* C is unknown, or C has no property P
TargetListOf(classes, C, P) ==
    LET props == DeclaredProperties(classes, C)
        at == {j \in 1..Len(props) : props[j].name = P}
    IN  IF at = {} THEN <<>>
        ELSE SelectSeq(props[CHOOSE j \in at : \A k \in at : j <= k].dataType,
                       LAMBDA dt : Len(dt) > 0 /\ dt[1] \in CapitalLetters)

Spaced(words) == join(words, <<" ">>)
OnFragment(t, refFields) ==
    <<".",".","."," ","o","n"," ">> \o t \o <<" ","{"," ">> \o Spaced(refFields) \o <<" ","}">>

\* the projection for the resolved targets T
ProjectionFor(T, baseFields, P, refFields) ==
    Core(Spaced(baseFields) \o <<" ">> \o P \o <<" ","{"," ">>
         \o (IF T = <<>> THEN Spaced(refFields)
             ELSE Spaced([i \in 1..Len(T) |-> OnFragment(T[i], refFields)]))
         \o <<" ","}">>)

\* C15: queryWithRefs requests the base fields and, for the reference
\* property, one '... on <Target> { refProps }' fragment per resolved target
\* class, in resolved order.  When no target is resolved (property absent,
\* not a reference, or no schema) it does not raise: it sends the query
\* with the block `refProp { refProps }` and no fragment, it names no target
\* class, and its traversal line gives the target as 'UnknownTarget'.
C15_FragmentPerTarget ==
    conn.op = "queryWithRefs" =>
        LET T == TargetListOf(classesOf(conn.schemaSeen), conn.collection, conn.refProp)
        IN  /\ conn.request.fields
                  = ProjectionFor(T, conn.targetProps, conn.refProp, conn.refProps)
            /\ conn.outcome.ok <=> conn.answer.ok
            /\ conn.outcome.ok =>
                  LET lines == conn.outcome.lines
                      tr == LinesOfKind(lines, "traversed")
                  IN  /\ Len(tr) = IF conn.answer.rows = <<>> THEN 0 ELSE 1
                      /\ \A k \in 1..Len(tr) :
                            tr[k].targetLabel =
                               IF T = <<>>
                               THEN <<"U","n","k","n","o","w","n","T","a","r","g","e","t">>
                               ELSE join(T, <<" ","|"," ">>)
                      /\ T = <<>> =>
                            \A k \in 1..Len(lines) :
                                lines[k].kind = "missed" => lines[k].cls = conn.collection

\* a traversal along a property that the class declares with no class-like
\* data type: the query went out without fragments and the rows are
\* reported under 'UnknownTarget'
C15_Witness ==
    /\ conn.op = "queryWithRefs"
    /\ conn.schemaSeen # None
    /\ \E j \in 1..Len(DeclaredProperties(Val(conn.schemaSeen), conn.collection)) :
          DeclaredProperties(Val(conn.schemaSeen), conn.collection)[j].name = conn.refProp
    /\ conn.request.fields
          = Spaced(conn.targetProps) \o <<" ">> \o conn.refProp \o <<" ","{"," ">>
            \o Spaced(conn.refProps) \o <<" ","}">>
    /\ conn.outcome.ok
    /\ \E i \in 1..Len(conn.outcome.lines) :
          /\ conn.outcome.lines[i].kind = "traversed"
          /\ conn.outcome.lines[i].targetLabel
                = <<"U","n","k","n","o","w","n","T","a","r","g","e","t">>

\* ------------------------------------------------------------------------
\* C16: the report of an empty result

EmptyResult == conn.answer.ok /\ conn.answer.rows = <<>>

\* C16: when the store returns zero rows, queryOrigin and queryWithRefs
\* return a report with the no-match line and no result line, the missed
\* fields of the base class (whenever it declares a property that was not
\* requested), and the links of the base collection: the invitation to
\* deepen the search, every outgoing and every incoming reference.
C16_EmptyResultReport ==
    (Traversal /\ EmptyResult) =>
        /\ conn.outcome.ok
        /\ LET lines == conn.outcome.lines
               classes == classesOf(conn.schemaSeen)
               names == DeclaredNamesOf(classes, conn.collection)
               outgoing == map(LinesOfKind(lines, "outgoing"),
                               LAMBDA l : [prop |-> l.prop, targets |-> l.targets])
           IN  /\ Len(LinesOfKind(lines, "nomatch")) = 1
               /\ LinesOfKind(lines, "row") = <<>>
               /\ LinesOfKind(lines, "matched") = <<>>
               /\ LinesOfKind(lines, "traversed") = <<>>
               /\ Unrequested(names, conn.targetProps) # {} =>
                     \E k \in 1..Len(lines) :
                         /\ lines[k].kind = "missed"
                         /\ lines[k].cls = conn.collection
                         /\ Len(lines[k].show) > 0
               /\ Len(LinesOfKind(lines, "deepen")) = 1
               /\ IsOutgoingOf(outgoing, DeclaredProperties(classes, conn.collection))
               /\ Len(LinesOfKind(lines, "outgoingTitle")) = IF outgoing = <<>> THEN 0 ELSE 1
               /\ IncomingPairs(LinesOfKind(lines, "incoming"))
                     = PairsTargeting(conn.schemaSeen, conn.collection)
               /\ Len(LinesOfKind(lines, "incoming"))
                     = Cardinality(PairsTargeting(conn.schemaSeen, conn.collection))

\* an empty result reported with missed fields, an outgoing and an incoming
\* link
C16_Witness ==
    /\ conn.op = "queryOrigin"
    /\ EmptyResult
    /\ conn.outcome.ok
    /\ LinesOfKind(conn.outcome.lines, "nomatch") # <<>>
    /\ LinesOfKind(conn.outcome.lines, "missed") # <<>>
    /\ LinesOfKind(conn.outcome.lines, "outgoing") # <<>>
    /\ LinesOfKind(conn.outcome.lines, "incoming") # <<>>

\* ------------------------------------------------------------------------
\* C17, C18: failures of the store

\* the schema fetch of the invocation failed
SchemaFetchFailed == Invocation /\ conn.schemaSeen = None

\* C17: when the schema fetch fails, query, generateText, queryOrigin and
\* queryWithRefs do not fail for that reason: the query is sent without a
\* hybrid clause, and the text returned has no list of collections and no
\* link entry.
C17_SchemaFailureTolerated ==
    SchemaFetchFailed =>
        /\ conn.request.className = conn.collection
        /\ conn.request.hybrid = None
        /\ conn.outcome.ok <=> conn.answer.ok
        /\ conn.outcome.ok =>
              \A k \in 1..Len(conn.outcome.lines) :
                  conn.outcome.lines[k].kind
                      \notin {"collections", "outgoingTitle", "outgoing",
                              "incomingTitle", "incoming"}

\* the message prefix of the error that each entry point throws
ErrorPrefix(op) ==
    CASE op = "query" -> "Query failed"
      [] op = "generateText" -> "Text generation failed"
      [] op = "queryOrigin" -> "Query failed"
      [] op = "queryWithRefs" -> "Query with refs failed"

\* the text is whole: a traversal report runs from its header to the links
\* section, with the no-match line or the result lines in between; the text
\* of query and generateText ends with the store's result
CompleteText(op, lines) ==
    IF op \in {"queryOrigin", "queryWithRefs"}
    THEN /\ Len(lines) >= 3
         /\ lines[1].kind = "header"
         /\ Len(LinesOfKind(lines, "deepen")) = 1
         /\ (LinesOfKind(lines, "nomatch") # <<>>) # (LinesOfKind(lines, "row") # <<>>)
    ELSE /\ Len(lines) \in {1, 2}
         /\ lines[Len(lines)].kind = "json"
         /\ lines[Len(lines)].rows = conn.answer.rows

\* C18: when the store fails the query of query, generateText, queryOrigin
\* or queryWithRefs, the call ends with one error whose message embeds the
\* store's cause, and with no report text; when the store answers, the call
\* returns a complete text.  No call ends with part of a report.
C18_ReportOrSingleError ==
    Invocation =>
        /\ ~conn.answer.ok =>
              /\ ~conn.outcome.ok
              /\ conn.outcome.prefix = ErrorPrefix(conn.op)
              /\ conn.outcome.cause = conn.answer.cause
              /\ conn.outcome.cause # ""
              /\ conn.outcome.lines = <<>>
        /\ conn.answer.ok =>
              /\ conn.outcome.ok
              /\ conn.outcome.prefix = "" /\ conn.outcome.cause = ""
              /\ CompleteText(conn.op, conn.outcome.lines)

\* queryWithRefs ended with the error 'Query with refs failed: connect
\* ECONNREFUSED' although its schema fetch had succeeded
C18_Witness ==
    /\ conn.op = "queryWithRefs"
    /\ conn.schemaSeen # None
    /\ conn.answer = [ok |-> FALSE, rows |-> <<>>, cause |-> "connect ECONNREFUSED"]
    /\ conn.outcome.prefix = "Query with refs failed"
    /\ conn.outcome.cause = "connect ECONNREFUSED"
    /\ conn.outcome.lines = <<>>

\* ------------------------------------------------------------------------
\* C19: the order of the sections of a report

\* the section a line belongs to
Section(line) ==
    CASE line.kind = "header" -> 1
      [] line.kind = "warning" -> 2
      [] line.kind = "collections" -> 3
      [] line.kind \in {"nomatch", "matched", "traversed", "row"} -> 4
      [] line.kind = "missed" -> 5
      [] line.kind \in {"deepen", "outgoingTitle", "outgoing"} -> 6
      [] line.kind \in {"incomingTitle", "incoming"} -> 7

\* C19: in the reports of queryOrigin and queryWithRefs the sections come
\* in this order: the header line, the hybrid-skipped warning, the list of
\* collections, the no-match line or the result lines, the missed-fields
\* lines, and last the outgoing and the incoming links.
C19_SectionOrder ==
    (Traversal /\ conn.outcome.ok) =>
        LET lines == conn.outcome.lines
        IN  /\ lines[1].kind = "header"
            /\ \A i, j \in 1..Len(lines) :
                  i < j => Section(lines[i]) <= Section(lines[j])

\* ------------------------------------------------------------------------
\* C20: one result line per row

\* the row carries no value under the references that the report follows
NoReferenceValues(op, r) ==
    IF op = "queryOrigin"
    THEN r.belongsToFluxo = <<>> /\ NamedEntidades(r) = {}
    ELSE r.ref \in {<<>>, << <<>> >>}

\* C20: the reports of queryOrigin and queryWithRefs have exactly one result
\* line per row returned by the store, in the store's order; a row with no
\* reference values has its line, with 'none' in place of the labels.
C20_OneLinePerRow ==
    (Traversal /\ conn.outcome.ok) =>
        LET R == LinesOfKind(conn.outcome.lines, "row")
            rows == conn.answer.rows
        IN  /\ Len(R) = Len(rows)
            /\ \A k \in 1..Len(R) :
                  /\ IF conn.op = "queryOrigin" THEN R[k].base = rows[k].name
                     ELSE rows[k].name # <<>> => R[k].label = rows[k].name[1]
                  /\ NoReferenceValues(conn.op, rows[k]) =>
                        /\ R[k].refsText = <<"n","o","n","e">>
                        /\ conn.op = "queryOrigin" =>
                              R[k].fluxoText = <<"n","o","n","e">>

\* ------------------------------------------------------------------------
\* C25: the text of a traversal is determined by its inputs

\* the step is a second call with the inputs of the call before
CalledAgain ==
    /\ conn.calls >= 1
    /\ conn'.calls = conn.calls + 1
    /\ conn'.op = conn.op
    /\ conn'.collection = conn.collection /\ conn'.refProp = conn.refProp
    /\ conn'.query = conn.query /\ conn'.limit = conn.limit
    /\ conn'.targetProps = conn.targetProps /\ conn'.refProps = conn.refProps
    /\ conn'.schemaSeen = conn.schemaSeen
    /\ conn'.answer = conn.answer

RowsReturned == conn.answer.ok /\ conn.answer.rows # <<>>

\* C26: whatever base collection is passed to queryOrigin, when the store
\* returns at least one row for that collection the report has one result
\* line per row and does not say that nothing matched.
C26_RowsOfAnyCollection ==
    (conn.op = "queryOrigin" /\ RowsReturned) =>
        /\ conn.outcome.ok
        /\ Len(LinesOfKind(conn.outcome.lines, "row")) = Len(conn.answer.rows)
        /\ LinesOfKind(conn.outcome.lines, "nomatch") = <<>>

\* ------------------------------------------------------------------------
\* C29: the missed fields of the target classes

\* the missed-fields lines that follow the line of the base collection
TargetMissed(lines, classes, C, baseFields) ==
    LET M == LinesOfKind(lines, "missed")
        base == IF Unrequested(DeclaredNamesOf(classes, C), baseFields) = {} THEN 0 ELSE 1
    IN  SubSeq(M, base + 1, Len(M))

\* C29: in a report of queryWithRefs the missed-fields lines of the target
\* classes are, in the order of the resolved targets, one line for each
\* target that declares a property not among the reference fields: it lists
\* those property names in declared order, the first 10 of them, with the
\* ellipsis marker exactly when there are more than 10.  There is no such
\* line when no target is resolved or the schema is unavailable.
C29_MissedTargetFields ==
    (conn.op = "queryWithRefs" /\ conn.outcome.ok) =>
        LET classes == classesOf(conn.schemaSeen)
            T == TargetListOf(classes, conn.collection, conn.refProp)
            missing(t) == Unrequested(DeclaredNamesOf(classes, t), conn.refProps)
            withMissed == SelectSeq(T, LAMBDA t : missing(t) # {})
            L == TargetMissed(conn.outcome.lines, classes, conn.collection,
                              conn.targetProps)
        IN  /\ (T = <<>> \/ conn.schemaSeen = None) => L = <<>>
            /\ Len(L) = Len(withMissed)
            /\ \A k \in 1..Len(L) :
                  /\ L[k].cls = withMissed[k]
                  /\ ListsEntriesAt(L[k].show, DeclaredNamesOf(classes, withMissed[k]),
                                    FirstOf(missing(withMissed[k]), 10))
                  /\ L[k].ellipsis <=> Cardinality(missing(withMissed[k])) > 10

\* a report shows 10 of the 11 missed fields of the target class Fluxo,
\* followed by the marker
C29_Witness ==
    /\ conn.op = "queryWithRefs"
    /\ conn.outcome.ok
    /\ conn.collection = Etapa
    /\ \E i \in 1..Len(conn.outcome.lines) :
          /\ conn.outcome.lines[i].kind = "missed"
          /\ conn.outcome.lines[i].cls = Fluxo
          /\ Len(conn.outcome.lines[i].show) = 10
          /\ conn.outcome.lines[i].ellipsis
          /\ Cardinality(Unrequested(DeclaredNamesOf(classesOf(conn.schemaSeen), Fluxo),
                                     conn.refProps)) = 11

\* ------------------------------------------------------------------------
\* Properties of the tool runtime (checked under Spec)

NotFound == "Collection was not found. Available collections"
NoCollections == "No collections are available in the Weaviate schema."
PropertyNotAllowed == "Property does not exist in collection"
ClassSchemaFailed == "Failed to get class schema"

Contains(list, x) == \E i \in 1..Len(list) : list[i] = x
ForcedRefreshes == Cardinality({k \in 1..Len(gcn) : gcn[k].force})
UnforcedCalls == Cardinality({k \in 1..Len(gcn) : ~gcn[k].force})

\* the caller gave no collection name (none, or only blanks)
Omitted ==
    \/ call.candidate = None
    \/ \A i \in 1..Len(Val(call.candidate)) : Val(call.candidate)[i] \in WhiteSpace

\* C4: a name missing from the first list causes exactly one forced refresh
\* in the call, a name present in it causes none; after the refresh the call
\* goes on to the class (and succeeds unless the store fails it there) if the
\* refreshed list has the name, and otherwise fails with an error listing
\* the refreshed list.
C4_OneForcedRefresh ==
    /\ (IsSome(call.firstList) /\ IsSome(call.collectionName)) =>
          /\ UnforcedCalls = 1
          /\ ForcedRefreshes =
                IF Contains(Val(call.firstList), Val(call.collectionName)) THEN 0 ELSE 1
    /\ ~IsSome(call.firstList) => ForcedRefreshes = 0
    /\ IsSome(call.refreshed) =>
          /\ gcn[Len(gcn)].force /\ gcn[Len(gcn)].fetched
          /\ Val(call.refreshed) = Val(gcn[Len(gcn)].returned)
          /\ IF Contains(Val(call.refreshed), Val(call.collectionName))
             THEN \/ call.pc = "classSchema"
                  \/ call.pc = "done" /\ call.error = ClassSchemaFailed
                  \/ /\ IsSome(call.classSchema)
                     /\ Val(call.classSchema).class = Val(call.collectionName)
             ELSE /\ call.pc = "done"
                  /\ call.status = "error"
                  /\ call.error = NotFound
                  /\ call.subject = Val(call.collectionName)
                  /\ call.list = Val(call.refreshed)
                  /\ call.queries = 0

\* a call failed after its one forced refresh, listing a refreshed list that
\* differs from the list it first obtained
C4_Witness ==
    /\ call.pc = "done"
    /\ call.error = NotFound
    /\ ForcedRefreshes = 1
    /\ Len(call.list) > 0
    /\ call.list # Val(call.firstList)

\* C5: getCollectionNames serves the cached names, with no fetch and no
\* change of the cache, exactly when forceRefresh is false, an entry exists
\* and its age is strictly under 60 seconds; otherwise it fetches the schema,
\* and (the fetch answered) the cache holds the fetched names, which it
\* returns.
C5_CacheOrFetch ==
    \A k \in 1..Len(gcn) :
        LET g == gcn[k]
            served == /\ ~g.force
                      /\ g.cacheBefore # None
                      /\ g.t0 - Val(g.cacheBefore).fetchedAt < 60 * 1000
            fetchedNames == [i \in 1..Len(g.fetchedFrom) |-> g.fetchedFrom[i].class]
        IN  /\ g.phase = "fetching" => ~served
            /\ g.phase = "done" =>
                  /\ ~g.fetched <=> served
                  /\ ~g.fetched =>
                        /\ g.returned = Some(Val(g.cacheBefore).names)
                        /\ g.cacheAfter = g.cacheBefore
                  /\ (g.fetched /\ ~g.failed) =>
                        /\ g.returned = Some(fetchedNames)
                        /\ g.cacheAfter # None
                        /\ Val(g.cacheAfter).names = fetchedNames
            /\ (k = Len(gcn) /\ g.phase = "done") => collectionCache = g.cacheAfter

\* an unforced call found an entry exactly 60 seconds old, fetched, and
\* returned names other than the cached ones
C5_Witness ==
    \E k \in 1..Len(gcn) :
        /\ gcn[k].phase = "done"
        /\ ~gcn[k].force
        /\ gcn[k].cacheBefore # None
        /\ gcn[k].t0 - Val(gcn[k].cacheBefore).fetchedAt = 60 * 1000
        /\ gcn[k].fetched
        /\ gcn[k].returned # None
        /\ gcn[k].returned # Some(Val(gcn[k].cacheBefore).names)

DeclaredNames(cls) == {cls.properties[i].name : i \in 1..Len(cls.properties)}
Undeclared(cls, props) == {i \in 1..Len(props) : props[i] \notin DeclaredNames(cls)}

\* C6: in both tools a query is sent only after every requested property was
\* found among the declared properties of the resolved class; with an
\* undeclared property the call fails, naming the (first) undeclared property
\* and listing the declared ones, and sends no query.
C6_ValidatedBeforeQuery ==
    /\ call.queries > 0 =>
          /\ call.classSchema # None
          /\ Undeclared(Val(call.classSchema), call.targetProperties) = {}
    /\ call.pc \in {"schema", "do"} => call.classSchema # None
    /\ (call.classSchema # None
        /\ Undeclared(Val(call.classSchema), call.targetProperties) # {}) =>
          LET cls == Val(call.classSchema)
              bad == Undeclared(cls, call.targetProperties)
              first == CHOOSE i \in bad : \A j \in bad : i <= j
          IN  /\ call.pc = "done"
              /\ call.status = "error"
              /\ call.error = PropertyNotAllowed
              /\ call.subject = call.targetProperties[first]
              /\ call.list = [i \in 1..Len(cls.properties) |-> cls.properties[i].name]
              /\ call.queries = 0

\* the generate tool rejected a request whose second property is undeclared
C6_Witness ==
    /\ call.tool = GENERATE_TOOL_NAME
    /\ call.pc = "done"
    /\ call.error = PropertyNotAllowed
    /\ call.subject = call.targetProperties[2]
    /\ Len(call.list) = 3
    /\ call.queries = 0

Completed == {k \in 1..Len(gcn) : gcn[k].fetched /\ ~gcn[k].failed}
InFlight == {k \in 1..Len(gcn) : gcn[k].phase = "fetching"}

\* the cache entry that the completed invocation k stored
StoredBy(k) == [names |-> gcn[k].returned[1], fetchedAt |-> gcn[k].t0]

\* C21: however the steps of concurrent callers interleave, the cache entry
\* is at every moment the whole entry stored by one completed fetch: the
\* names of that fetch with the fetchedAt of that same fetch, never names of
\* one with the time of another or a mixture of two lists; and a caller
\* served from the cache gets the whole list of one fetch.
C21_WholeEntryOfOneFetch ==
    /\ collectionCache = <<>> <=> Completed = {}
    /\ collectionCache # <<>> =>
          \E k \in Completed : collectionCache[1] = StoredBy(k)
    /\ \A r \in 1..Len(gcn) :
          (gcn[r].phase = "done" /\ ~gcn[r].fetched) =>
              \E k \in Completed : k < r /\ gcn[r].returned = gcn[k].returned

\* two fetches were in flight together and returned different lists; the
\* entry is the one stored by the fetch that was answered last
C21_Witness ==
    /\ Len(gcn) = 2
    /\ Completed = {1, 2}
    /\ gcn[1].t0 < gcn[2].t0
    /\ gcn[1].returned # gcn[2].returned
    /\ gcn[1].returned[1] # <<>> /\ gcn[2].returned[1] # <<>>
    /\ collectionCache[1] = StoredBy(1)

\* C22: at most one refresh of the cache is in flight: a caller that finds
\* the cache missing, expired or bypassed while a fetch is outstanding
\* starts no second fetch.
C22_OneRefreshInFlight == Cardinality(InFlight) <= 1

\* C27: however concurrent getCollectionNames calls interleave, fetchedAt
\* never goes back and the cached names are those of a fetch that started
\* latest among the completed ones: an earlier fetch that is answered later
\* does not overwrite the entry of a newer one.
C27_NewestFetchWins ==
    Completed # {} =>
        /\ collectionCache # <<>>
        /\ \A k \in Completed : collectionCache[1].fetchedAt >= gcn[k].t0
        /\ \E k \in Completed :
              /\ \A j \in Completed : gcn[j].t0 <= gcn[k].t0
              /\ collectionCache[1] = StoredBy(k)

\* ------------------------------------------------------------------------
\* C23: the handlers only read the store

\* the operations of the store client that read: the two schema getters and
\* the GraphQL Get query; the operation of insertOne writes an object
ReadOperations == {"schema.getter", "schema.classGetter", "graphql.get"}
WriteOperations == { insertOne(c, <<>>).api : c \in Collections }

\* C23: whatever tool calls and schema resource reads are made, every store
\* operation that a handler performs is a read, none is the write of
\* insertOne, and no step of a handler changes what the store holds.
C23_HandlersOnlyRead ==
    /\ [](/\ call.ops \subseteq ReadOperations
          /\ call.ops \cap WriteOperations = {})
    /\ [][call' # call => schema' = schema]_vars

\* a tool call went through its four store operations and returned rows
C23_Witness ==
    /\ call.pc = "done" /\ call.status = "ok"
    /\ call.tool = QUERY_TOOL_NAME
    /\ call.queries = 1
    /\ call.ops = {"schema.getter", "schema.classGetter", "graphql.get"}
    /\ call.raw.lines[1].rows # <<>>
    /\ IsSome(collectionCache)

\* ------------------------------------------------------------------------
\* C24: the response of a tool call

\* the text is one JSON document and nothing else
IsJson(t) == Len(t) = 1 /\ t[1].kind = "json"

\* the response that C24 describes for the text t
AsDescribed(t, response) ==
    IF IsJson(t) /\ t[1].type \in {"object", "array"}
    THEN /\ response.structuredContent # None
         /\ LET sc == response.structuredContent[1]
            IN  /\ sc.type = "object"
                /\ IF t[1].type = "object" THEN sc = t[1]
                   ELSE /\ sc.key = <<"r","e","s","u","l","t","s">>
                        /\ sc.root = ""
                        /\ sc.rows = t[1].rows
                /\ response.text = << sc >>
    ELSE /\ response.structuredContent = None
         /\ response.text = t

\* texts that a connection method may or may not return: JSON documents of
\* every type, alone, after a warning line, and the empty text
SomeDocuments ==
    { Document(ty, "", <<>>, <<>>) : ty \in {"null", "number", "string", "boolean"} }
    \cup { Document("array", "", <<>>, r) : r \in StoreRows }
    \cup { JsonLine(Etapa, Answered(r)) : r \in StoreRows }
SomeTexts ==
    { <<>> } \cup { <<d>> : d \in SomeDocuments }
    \cup { << WarningLine(Etapa, "hybrid search skipped"), d >> : d \in SomeDocuments }

\* C24: the response of a tool call carries structuredContent exactly when
\* the text returned by the connection parses as a JSON object or array (an
\* array is wrapped as { results: array }); its text content is then the
\* structured content pretty-printed.  Otherwise, as when the text starts
\* with a warning line, the text content is the connection's text unchanged
\* and there is no structuredContent.
C24_StructuredIffJson ==
    /\ (call.pc = "done" /\ call.status = "ok"
            /\ call.tool \in {QUERY_TOOL_NAME, GENERATE_TOOL_NAME}) =>
          /\ call.raw.ok
          /\ AsDescribed(call.raw.lines, call.response)
    /\ call.status # "ok" => call.response = NoResponse
    /\ call.pc = "idle" => \A t \in SomeTexts : AsDescribed(t, toolResponse(t))

\* a generate-text call answered after a warning line: the response is the
\* text as it came, without structuredContent
C24_Witness ==
    /\ call.pc = "done" /\ call.status = "ok"
    /\ call.tool = GENERATE_TOOL_NAME
    /\ Len(call.raw.lines) = 2
    /\ call.raw.lines[1].kind = "warning"
    /\ call.raw.lines[2].rows # <<>>
    /\ call.response.structuredContent = None
    /\ call.response.text = call.raw.lines

\* ------------------------------------------------------------------------
\* C30: startHttp and shutdown (checked under SpecLifecycle)

\* the server that this.httpServer refers to is listening
ListenerOpen ==
    /\ runtime.httpServer # <<>>
    /\ \E l \in runtime.listening : l.id = runtime.httpServer[1]

\* s is in the order of t (both without repetition)
InOrderOf(s, t) ==
    \A i, j \in 1..Len(s) :
        i < j => \E a, b \in 1..Len(t) : a < b /\ t[a] = s[i] /\ t[b] = s[j]

\* C30: after any sequence of startHttp and shutdown calls on one runtime,
\* whenever the HTTP listener is open the MCP server is connected to the
\* HTTP transport and activeTransport is set, also when the startHttp
\* follows a shutdown; and shutdown closes the HTTP listener, then the
\* active transport, then the MCP server, and leaves httpServer and
\* activeTransport unset.
C30_ListenerImpliesConnected ==
    /\ ListenerOpen => (runtime.connected /\ runtime.activeTransport)
    /\ (runtime.last = "shutdown" /\ runtime.pc = "idle") =>
          /\ runtime.httpServer = <<>>
          /\ ~runtime.activeTransport
          /\ ~runtime.connected
    /\ runtime.last = "shutdown" =>
          /\ InOrderOf(runtime.closed, <<"httpServer", "activeTransport", "server">>)
          /\ runtime.pc = "idle" => runtime.closed[Len(runtime.closed)] = "server"

\* what shutdown guarantees, and what holds of a listener opened by a
\* runtime that has not been shut down before
ShutdownAndFirstStart ==
    /\ (ListenerOpen /\ runtime.httpTransport # "closed")
          => (runtime.connected /\ runtime.activeTransport)
    /\ (runtime.last = "shutdown" /\ runtime.pc = "idle") =>
          /\ runtime.httpServer = <<>>
          /\ ~runtime.activeTransport
          /\ ~runtime.connected
          /\ ~ListenerOpen
    /\ runtime.last = "shutdown" =>
          /\ InOrderOf(runtime.closed, <<"httpServer", "activeTransport", "server">>)
          /\ runtime.pc = "idle" => runtime.closed[Len(runtime.closed)] = "server"

\* ------------------------------------------------------------------------
\* C28: a schema fetch that fails inside getCollectionNames

\* C28: when the schema fetch of a getCollectionNames call fails, forced or
\* not, the call returns no names, the tool call ends with the error of the
\* fetch, and the cache entry (names and fetchedAt) is the one that was
\* there when getCollectionNames was called.
C28_FailedFetchKeepsCache ==
    \A k \in 1..Len(gcn) :
        gcn[k].failed =>
            /\ k = Len(gcn)
            /\ gcn[k].fetched
            /\ gcn[k].returned = None
            /\ gcn[k].cacheAfter = gcn[k].cacheBefore
            /\ collectionCache = gcn[k].cacheBefore
            /\ call.pc = "done" /\ call.status = "error"
            /\ call.error = "Failed to get schema"
            /\ call.queries = 0

\* a forced refresh failed although the cache held names: the entry is
\* still there, and still within its time to live
C28_Witness ==
    /\ Len(gcn) = 2
    /\ gcn[2].force /\ gcn[2].failed
    /\ IsSome(gcn[2].cacheBefore)
    /\ Val(gcn[2].cacheBefore).names # <<>>
    /\ collectionCache = gcn[2].cacheBefore
    /\ now > Val(collectionCache).fetchedAt
    /\ cacheFresh(FALSE, collectionCache, now)
    /\ call.status = "error"

====
